---- MODULE Spec2Model ----
(***************************************************************************)
(* Model of the reclip edit decision and rendering engine                  *)
(* (crates/reclip-core: audio.rs, editor.rs, exporter.rs, types.rs).       *)
(*                                                                         *)
(* Representation.                                                         *)
(*  - A time (f64 seconds) is an integer number of ticks, one tick being   *)
(*    1/TicksPerSec second, so every time below is an exact rational.      *)
(*  - A sample (f32) is a rational <<n, d>> with d > 0 in lowest terms.    *)
(*  - Vec indices are 0-based in the code; sequences here are 1-based, so  *)
(*    samples[i] of the code is samples[i + 1] here.                       *)
(*  - A text (String) is a sequence of tokens; the separator " ... " that  *)
(*    merge_removals inserts is the token "...".                           *)
(***************************************************************************)
EXTENDS Integers, Sequences, FiniteSets, TLC

VARIABLES
    samples,        \* AudioData.samples of the loaded audio
    sample_rate,    \* AudioData.sample_rate of the loaded audio
    config,         \* Editor.config : EditorConfig
    removals,       \* AnalysisResult.removals handed to edit / preview
    pc,             \* which operation has run last
    valid_removals, \* edit: removals that passed the filter
    merged_removals,\* edit: result of merge_removals, sorted
    adjusted_removals, \* edit: the plan, <<start, end, removal>> triples
    segments,       \* apply_removals: kept slices as <<from, to>> index pairs
    edited,         \* apply_removals: samples of the edited AudioData
    edits,          \* apply_removals: Vec<AppliedEdit>
    result,         \* edit: "none" | "ok" | "err_load" | "err_save"
    report,         \* the EditReport returned by edit (or handed to Exporter)
    preview_edits,  \* preview: Vec<PreviewEdit>
    preview_plan,   \* preview: its local plan `adjusted`
    json,           \* JsonReport::from_report(report)
    keep_regions,   \* to_edl: Exporter::compute_keep_regions(report)
    edl_events,     \* to_edl: the event lines written
    zc_target,      \* find_zero_crossing: target_sample
    zc_range,       \* find_zero_crossing: search_range
    zc_result,      \* find_zero_crossing: returned index (-1 before the call)
    merged_once,    \* merge_removals(removals)
    merged_twice,   \* merge_removals(merge_removals(removals))
    output_file,    \* the file at output_path: [exists, samples, finalized]
    prev_plan,      \* the plan of the previous edit call on the same audio
    prev_edits,     \* the edits of the previous edit call on the same audio
    cf_segment1,    \* apply_crossfade: segment1
    cf_segment2,    \* apply_crossfade: segment2
    cf_samples,     \* apply_crossfade: crossfade_samples
    cf_result,      \* apply_crossfade: the returned Vec
    conv_time,      \* time_to_sample: time_sec, in ticks
    conv_index,     \* time_to_sample: returned index (-1 before the call)
    stream,         \* load_symphonia: what the next calls of next_packet meet
    channels,       \* load_symphonia: channel count of the track
    all_samples,    \* load_symphonia: all_samples
    load_result,    \* load_symphonia: "none" | "ok" | "err"
    load_warnings,  \* load_symphonia: number of tracing::warn! calls made
    tc_seconds,     \* seconds_to_timecode: seconds, in ticks
    tc_fps,         \* seconds_to_timecode: fps, a rational
    tc_fields,      \* seconds_to_timecode: <<hours, mins, secs, frames>>
    path,           \* load: the path, [exists, extension]; the extension
                    \* is <<>> (None) or <<e>> (Some(e))
    decoder,        \* load: the decoder called, "none" | "wav" | "symphonia"
    load_returned,  \* load: None before the call, then <<"Ok">> or the
                    \* AudioError <<variant>> or <<variant, argument>>
    dest_file,      \* download: the file at dest_path, <<>> or <<bytes>>
    temp_file,      \* download: the file at temp_path, <<>> or <<bytes>>
    response,       \* download: what the coming calls of stream.next() meet
    requests,       \* download: number of HTTP requests sent
    model_sha256,   \* download: ModelInfo.sha256, <<>> when empty
    download_result,\* download: "none" | "ok" | a ModelError
    download_calls  \* download: number of calls made

vars == <<samples, sample_rate, config, removals, pc, valid_removals,
          merged_removals, adjusted_removals, segments, edited, edits, result,
          report, preview_edits, preview_plan, json, keep_regions, edl_events,
          zc_target, zc_range, zc_result, merged_once, merged_twice,
          output_file, prev_plan, prev_edits, cf_segment1, cf_segment2,
          cf_samples, cf_result, conv_time, conv_index, stream,
          channels, all_samples, load_result, load_warnings, tc_seconds,
          tc_fps, tc_fields, path, decoder, load_returned, dest_file,
          temp_file, response, requests, model_sha256, download_result,
          download_calls>>

\* the variables of the operations that are modelled on their own
prevVars == <<prev_plan, prev_edits>>
crossfadeVars == <<cf_segment1, cf_segment2, cf_samples, cf_result>>
convVars == <<conv_time, conv_index>>
loadVars == <<stream, channels, all_samples, load_result, load_warnings>>
tcVars == <<tc_seconds, tc_fps, tc_fields>>
dispatchVars == <<path, decoder, load_returned>>
downloadVars == <<dest_file, temp_file, response, requests, model_sha256,
                  download_result, download_calls>>
otherVars == <<tcVars, dispatchVars, downloadVars>>
auxVars == <<crossfadeVars, convVars, loadVars, otherVars>>

----------------------------------------------------------------------------
(* Bounds of the model *)

MaxLen == 4          \* longest sample buffer
MaxTime == 4         \* latest removal boundary, in ticks
MaxRemovals == 2     \* longest removal list
MaxMs == 1           \* largest value of an EditorConfig field, in ms
MaxRange == 2        \* largest search_range handed to find_zero_crossing alone
MaxMergeLen == 3     \* longest list handed to merge_removals alone
MaxEdits == 3        \* most edits of a report handed to the exporter
TicksPerMs == 1      \* resolution of the time axis

MsPerSec == 1000
TicksPerSec == TicksPerMs * MsPerSec

SampleValues == {-1, 1, 2}
RenderValues == {-1, 1}
ZcValues == {-2, -1, 0, 1, 2}
SampleRates == {1000}
Reasons == {"Filler", "Repeat", "MouthNoise"}   \* variants of RemovalReason in use

----------------------------------------------------------------------------
(* Arithmetic helpers *)

Min(a, b) == IF a <= b THEN a ELSE b
Max(a, b) == IF a >= b THEN a ELSE b
Abs(a) == IF a < 0 THEN -a ELSE a

RECURSIVE Gcd(_, _)
Gcd(a, b) == IF b = 0 THEN a ELSE Gcd(b, a % b)

\* the rational n/d, d > 0, in lowest terms
Rat(n, d) ==
    LET g == Gcd(Abs(n), d) IN <<n \div g, d \div g>>

\* usize::saturating_sub
SaturatingSub(a, b) == IF a >= b THEN a - b ELSE 0

\* `x as usize` for a non-negative rational num/den: truncation toward zero,
\* saturating at 0 for negative values
AsUsize(num, den) == IF num <= 0 THEN 0 ELSE num \div den

\* &v[from..to] with 0-based, half-open indices
Slice(v, from, to) == SubSeq(v, from + 1, to)

----------------------------------------------------------------------------
(* audio.rs: AudioData *)

\* AudioData::duration, in ticks (len / sample_rate seconds); exact whenever
\* sample_rate divides TicksPerSec
Duration(v, rate) == (Len(v) * TicksPerSec) \div rate

\* AudioData::time_to_sample: (time_sec * sample_rate) as usize
time_to_sample(time, rate) == AsUsize(time * rate, TicksPerSec)

\* AudioData::sample_to_time: sample / sample_rate, in ticks
sample_to_time(sample, rate) == (sample * TicksPerSec) \div rate

----------------------------------------------------------------------------
(* audio.rs: AudioProcessor::find_zero_crossing *)

UsizeMax == 2147483647   \* usize::MAX, the "nothing found yet" distance
F32Max == 1000000        \* f32::MAX, the "nothing found yet" magnitude

\* samples[i] * samples[i + 1] <= 0.0 (0-based i)
IsCrossing(v, i) == v[i + 1][1] * v[i + 2][1] <= 0

\* |a| < |b| for rationals a, b
AbsLess(a, b) == Abs(a[1]) * b[2] < Abs(b[1]) * a[2]

\* first loop: for i in start..end, keep the crossing nearest to the target
\* (the strict comparison keeps the earliest index among equally near ones);
\* st is <<min_dist, best_idx>>
RECURSIVE ZcScan(_, _, _, _, _)
ZcScan(v, target_sample, i, end, st) ==
    IF i >= end THEN st
    ELSE LET dist == Abs(i - target_sample)
             hit == i + 1 < Len(v) /\ IsCrossing(v, i) /\ dist < st[1]
         IN ZcScan(v, target_sample, i + 1, end,
                   IF hit THEN <<dist, i>> ELSE st)

\* second loop: for i in start..end, keep the index of the smallest |sample|;
\* st is <<min_abs, best_idx>> where min_abs is a rational
RECURSIVE ZcFallback(_, _, _, _)
ZcFallback(v, i, end, st) ==
    IF i >= end THEN st
    ELSE ZcFallback(v, i + 1, end,
                    IF AbsLess(v[i + 1], st[1]) THEN <<v[i + 1], i>> ELSE st)

\* find_zero_crossing whose first guess is the target itself, not clamped
find_zero_crossing_NoClamp(v, target_sample, search_range) ==
    LET start == SaturatingSub(target_sample, search_range)
        end == Min(target_sample + search_range, SaturatingSub(Len(v), 1))
        scan == ZcScan(v, target_sample, start, end, <<UsizeMax, target_sample>>)
    IN IF scan[1] = UsizeMax
       THEN ZcFallback(v, start, end, <<(<<F32Max, 1>>), scan[2]>>)[2]
       ELSE scan[2]

\* find_zero_crossing whose first guess is clamped to len, not to len - 1
find_zero_crossing_ClampAtLen(v, target_sample, search_range) ==
    LET start == SaturatingSub(target_sample, search_range)
        end == Min(target_sample + search_range, SaturatingSub(Len(v), 1))
        best_idx == Min(target_sample, Len(v))
        scan == ZcScan(v, target_sample, start, end, <<UsizeMax, best_idx>>)
    IN IF scan[1] = UsizeMax
       THEN ZcFallback(v, start, end, <<(<<F32Max, 1>>), scan[2]>>)[2]
       ELSE scan[2]

\* find_zero_crossing whose window starts one sample earlier
find_zero_crossing_EarlyStart(v, target_sample, search_range) ==
    LET start == SaturatingSub(target_sample, search_range + 1)
        end == Min(target_sample + search_range, SaturatingSub(Len(v), 1))
        best_idx == Min(target_sample, SaturatingSub(Len(v), 1))
        scan == ZcScan(v, target_sample, start, end, <<UsizeMax, best_idx>>)
    IN IF scan[1] = UsizeMax
       THEN ZcFallback(v, start, end, <<(<<F32Max, 1>>), scan[2]>>)[2]
       ELSE scan[2]

find_zero_crossing(v, target_sample, search_range) ==
    LET start == SaturatingSub(target_sample, search_range)
        end == Min(target_sample + search_range, SaturatingSub(Len(v), 1))
        best_idx == Min(target_sample, SaturatingSub(Len(v), 1))
        scan == ZcScan(v, target_sample, start, end, <<UsizeMax, best_idx>>)
    IN IF scan[1] = UsizeMax
       THEN ZcFallback(v, start, end, <<(<<F32Max, 1>>), scan[2]>>)[2]
       ELSE scan[2]

----------------------------------------------------------------------------
(* audio.rs: AudioProcessor::apply_crossfade *)

\* a fade whose first sample is already one step away from segment1
FadeSampleFromOne(a, b, i, fade_len) ==
    Rat(a[1] * b[2] * (fade_len - i - 1) + b[1] * a[2] * (i + 1),
        a[2] * b[2] * fade_len)

\* segment1[len - fade_len + i] * (1 - t) + segment2[i] * t, t = i / fade_len
FadeSample(a, b, i, fade_len) ==
    Rat(a[1] * b[2] * (fade_len - i) + b[1] * a[2] * i, a[2] * b[2] * fade_len)

\* apply_crossfade that keeps the whole of segment1 before the fade
apply_crossfade_FullHead(segment1, segment2, crossfade_samples) ==
    IF crossfade_samples = 0 \/ segment1 = <<>> \/ segment2 = <<>>
    THEN segment1 \o segment2
    ELSE LET fade_len == Min(Min(crossfade_samples, Len(segment1)), Len(segment2))
             fade == [i \in 1..fade_len |->
                        FadeSample(segment1[Len(segment1) - fade_len + i],
                                   segment2[i], i - 1, fade_len)]
         IN segment1 \o fade \o Slice(segment2, fade_len, Len(segment2))

apply_crossfade(segment1, segment2, crossfade_samples) ==
    IF crossfade_samples = 0 \/ segment1 = <<>> \/ segment2 = <<>>
    THEN segment1 \o segment2
    ELSE LET fade_len == Min(Min(crossfade_samples, Len(segment1)), Len(segment2))
             head == Slice(segment1, 0, Len(segment1) - fade_len)
             fade == [i \in 1..fade_len |->
                        FadeSample(segment1[Len(segment1) - fade_len + i],
                                   segment2[i], i - 1, fade_len)]
         IN head \o fade \o Slice(segment2, fade_len, Len(segment2))

----------------------------------------------------------------------------
(* types.rs: Removal, AppliedEdit; editor.rs: EditorConfig *)

\* a duration of ms milliseconds (ms as f64 / 1000.0 seconds), in ticks
MsToTicks(ms) == (ms * TicksPerSec) \div MsPerSec

\* Removal::duration
RemovalDuration(r) == r.end - r.start

\* sort_by(|a, b| a.start.partial_cmp(&b.start)): a stable sort by start
RECURSIVE InsertByStart(_, _)
InsertByStart(sorted, r) ==
    IF sorted = <<>> THEN <<r>>
    ELSE IF sorted[Len(sorted)].start <= r.start THEN Append(sorted, r)
    ELSE Append(InsertByStart(SubSeq(sorted, 1, Len(sorted) - 1), r),
                sorted[Len(sorted)])

RECURSIVE SortByStartFrom(_, _, _)
SortByStartFrom(rs, i, acc) ==
    IF i > Len(rs) THEN acc
    ELSE SortByStartFrom(rs, i + 1, InsertByStart(acc, rs[i]))

SortByStart(rs) == SortByStartFrom(rs, 1, <<>>)

----------------------------------------------------------------------------
(* editor.rs: Editor::edit, the filter (lines 62-69) *)

FilterRemovals(rs, cfg) ==
    SelectSeq(rs, LAMBDA r : RemovalDuration(r) >= MsToTicks(cfg.min_removal_ms))

----------------------------------------------------------------------------
(* editor.rs: Editor::merge_removals *)

\* MergeStep measuring the gap from the start of the last interval
MergeStepGapFromStart(merged, removal, merge_threshold) ==
    LET last == merged[Len(merged)]
        gap == removal.start - last.start
    IN IF gap <= merge_threshold
       THEN [merged EXCEPT ![Len(merged)] =
                [last EXCEPT !.end = removal.end,
                             !.text = last.text \o <<"...">> \o removal.text,
                             !.confidence = Min(last.confidence, removal.confidence)]]
       ELSE Append(merged, removal)

\* MergeStep that takes the confidence of the removal merged last
MergeStepLastConfidence(merged, removal, merge_threshold) ==
    LET last == merged[Len(merged)]
        gap == removal.start - last.end
    IN IF gap <= merge_threshold
       THEN [merged EXCEPT ![Len(merged)] =
                [last EXCEPT !.end = removal.end,
                             !.text = last.text \o <<"...">> \o removal.text,
                             !.confidence = removal.confidence]]
       ELSE Append(merged, removal)

\* MergeStep that gives the merged interval the reason of the removal it absorbs
MergeStepLastReason(merged, removal, merge_threshold) ==
    LET last == merged[Len(merged)]
        gap == removal.start - last.end
    IN IF gap <= merge_threshold
       THEN [merged EXCEPT ![Len(merged)] =
                [last EXCEPT !.end = removal.end,
                             !.reason = removal.reason,
                             !.text = last.text \o <<"...">> \o removal.text,
                             !.confidence = Min(last.confidence, removal.confidence)]]
       ELSE Append(merged, removal)

\* body of the loop: merge the removal into the last interval or push it
MergeStep(merged, removal, merge_threshold) ==
    LET last == merged[Len(merged)]
        gap == removal.start - last.end
    IN IF gap <= merge_threshold
       THEN [merged EXCEPT ![Len(merged)] =
                [last EXCEPT !.end = removal.end,
                             !.text = last.text \o <<"...">> \o removal.text,
                             !.confidence = Min(last.confidence, removal.confidence)]]
       ELSE Append(merged, removal)

RECURSIVE MergeLoop(_, _, _, _)
MergeLoop(sorted, i, merged, merge_threshold) ==
    IF i > Len(sorted) THEN merged
    ELSE MergeLoop(sorted, i + 1,
                   MergeStep(merged, sorted[i], merge_threshold), merge_threshold)

\* merge_removals without the skip(1): the first removal meets itself
merge_removals_NoSkip(rs, cfg) ==
    IF rs = <<>> THEN <<>>
    ELSE LET sorted == SortByStart(rs)
         IN MergeLoop(sorted, 1, <<sorted[1]>>, MsToTicks(cfg.merge_gap_ms))

merge_removals(rs, cfg) ==
    IF rs = <<>> THEN <<>>
    ELSE LET sorted == SortByStart(rs)
         IN MergeLoop(sorted, 2, <<sorted[1]>>, MsToTicks(cfg.merge_gap_ms))

----------------------------------------------------------------------------
(* editor.rs: Editor::adjust_to_zero_crossings *)

\* (ms as f64 / 1000.0 * sample_rate as f64) as usize
MsToSamples(ms, rate) == AsUsize(ms * rate, MsPerSec)

\* the filter_map closure: the snapped triple of one removal
AdjustOne(v, rate, removal, search_samples) ==
    LET start_sample == time_to_sample(removal.start, rate)
        end_sample == time_to_sample(removal.end, rate)
        adjusted_start == find_zero_crossing(v, start_sample, search_samples)
        adjusted_end == find_zero_crossing(v, end_sample, search_samples)
    IN <<adjusted_start, adjusted_end, removal>>

\* AdjustKeeps letting an empty interval through
AdjustKeepsEmpty(triple) == triple[2] >= triple[1]

\* Some(..) iff adjusted_end > adjusted_start
AdjustKeeps(triple) == triple[2] > triple[1]

RECURSIVE AdjustFrom(_, _, _, _, _, _)
AdjustFrom(v, rate, rs, i, search_samples, acc) ==
    IF i > Len(rs) THEN acc
    ELSE LET t == AdjustOne(v, rate, rs[i], search_samples)
         IN AdjustFrom(v, rate, rs, i + 1, search_samples,
                       IF AdjustKeeps(t) THEN Append(acc, t) ELSE acc)

adjust_to_zero_crossings(v, rate, rs, cfg) ==
    AdjustFrom(v, rate, rs, 1,
               MsToSamples(cfg.zero_crossing_search_ms, rate), <<>>)

----------------------------------------------------------------------------
(* editor.rs: Editor::apply_removals *)

\* types.rs: impl Display for RemovalReason
ReasonToString(reason) ==
    CASE reason = "Filler" -> "filler"
      [] reason = "Repeat" -> "repeat"
      [] reason = "Restart" -> "restart"
      [] reason = "MouthNoise" -> "mouth_noise"
      [] reason = "LongPause" -> "long_pause"

\* AppliedEdit that keeps the snapped indices as its timestamps
AppliedEditSnapped(triple) ==
    [original_start |-> triple[1], original_end |-> triple[2],
     reason |-> ReasonToString(triple[3].reason), text |-> triple[3].text]

\* the AppliedEdit pushed for the plan entry (start, end, removal)
AppliedEdit(triple) ==
    [original_start |-> triple[3].start, original_end |-> triple[3].end,
     reason |-> ReasonToString(triple[3].reason), text |-> triple[3].text]

\* ApplyLoop that forgets to advance last_end
RECURSIVE ApplyLoopStaleEnd(_, _, _)
ApplyLoopStaleEnd(plan, i, st) ==
    IF i > Len(plan) THEN st
    ELSE LET start == plan[i][1]
         IN ApplyLoopStaleEnd(plan, i + 1,
               [segments |-> IF start > st.last_end
                             THEN Append(st.segments, <<st.last_end, start>>)
                             ELSE st.segments,
                edits |-> Append(st.edits, AppliedEdit(plan[i])),
                last_end |-> st.last_end])

\* ApplyLoop that records the edit only when it pushes a kept slice
RECURSIVE ApplyLoopEditInIf(_, _, _)
ApplyLoopEditInIf(plan, i, st) ==
    IF i > Len(plan) THEN st
    ELSE LET start == plan[i][1]
             end == plan[i][2]
         IN ApplyLoopEditInIf(plan, i + 1,
               [segments |-> IF start > st.last_end
                             THEN Append(st.segments, <<st.last_end, start>>)
                             ELSE st.segments,
                edits |-> IF start > st.last_end
                          THEN Append(st.edits, AppliedEdit(plan[i]))
                          ELSE st.edits,
                last_end |-> end])

\* the for loop over the plan; st is [segments, edits, last_end], a segment
\* being the index pair <<from, to>> of the slice &samples[from..to]
RECURSIVE ApplyLoop(_, _, _)
ApplyLoop(plan, i, st) ==
    IF i > Len(plan) THEN st
    ELSE LET start == plan[i][1]
             end == plan[i][2]
         IN ApplyLoop(plan, i + 1,
               [segments |-> IF start > st.last_end
                             THEN Append(st.segments, <<st.last_end, start>>)
                             ELSE st.segments,
                edits |-> Append(st.edits, AppliedEdit(plan[i])),
                last_end |-> end])

\* a join that crossfades the second segment only and appends the later ones
RECURSIVE JoinSegmentsFirstOnly(_, _, _, _, _)
JoinSegmentsFirstOnly(v, segs, i, acc, crossfade_samples) ==
    IF i > Len(segs) THEN acc
    ELSE JoinSegmentsFirstOnly(v, segs, i + 1,
            IF i = 2
            THEN apply_crossfade(acc, Slice(v, segs[i][1], segs[i][2]),
                                 crossfade_samples)
            ELSE acc \o Slice(v, segs[i][1], segs[i][2]),
            crossfade_samples)

\* result = segments[0]; result = apply_crossfade(result, segment, n) for the rest
RECURSIVE JoinSegments(_, _, _, _, _)
JoinSegments(v, segs, i, acc, crossfade_samples) ==
    IF i > Len(segs) THEN acc
    ELSE JoinSegments(v, segs, i + 1,
                      apply_crossfade(acc, Slice(v, segs[i][1], segs[i][2]),
                                      crossfade_samples),
                      crossfade_samples)

\* apply_removals that treats an empty plan like an empty segment list
apply_removals_EmptyOut(v, rate, plan, cfg) ==
    IF plan = <<>>
    THEN [samples |-> <<>>, edits |-> <<>>, segments |-> <<>>]
    ELSE LET crossfade_samples == MsToSamples(cfg.crossfade_ms, rate)
             st == ApplyLoop(plan, 1,
                             [segments |-> <<>>, edits |-> <<>>, last_end |-> 0])
             segs == IF st.last_end < Len(v)
                     THEN Append(st.segments, <<st.last_end, Len(v)>>)
                     ELSE st.segments
         IN IF segs = <<>>
            THEN [samples |-> <<>>, edits |-> st.edits, segments |-> segs]
            ELSE [samples |-> JoinSegments(v, segs, 2,
                                  Slice(v, segs[1][1], segs[1][2]),
                                  crossfade_samples),
                  edits |-> st.edits, segments |-> segs]

apply_removals(v, rate, plan, cfg) ==
    IF plan = <<>>
    THEN [samples |-> v, edits |-> <<>>, segments |-> <<>>]
    ELSE LET crossfade_samples == MsToSamples(cfg.crossfade_ms, rate)
             st == ApplyLoop(plan, 1,
                             [segments |-> <<>>, edits |-> <<>>, last_end |-> 0])
             segs == IF st.last_end < Len(v)
                     THEN Append(st.segments, <<st.last_end, Len(v)>>)
                     ELSE st.segments
         IN IF segs = <<>>
            THEN [samples |-> <<>>, edits |-> st.edits, segments |-> segs]
            ELSE [samples |-> JoinSegments(v, segs, 2,
                                  Slice(v, segs[1][1], segs[1][2]),
                                  crossfade_samples),
                  edits |-> st.edits, segments |-> segs]

----------------------------------------------------------------------------
(* editor.rs: Editor::preview *)

PreviewEdit(triple, rate) ==
    [original_start |-> triple[3].start,
     original_end |-> triple[3].end,
     adjusted_start |-> sample_to_time(triple[1], rate),
     adjusted_end |-> sample_to_time(triple[2], rate),
     duration |-> sample_to_time(triple[2], rate) - sample_to_time(triple[1], rate),
     reason |-> ReasonToString(triple[3].reason),
     text |-> triple[3].text,
     confidence |-> triple[3].confidence]

\* lines 238-250: the local `adjusted` of preview
preview_adjusted(v, rate, rs, cfg) ==
    adjust_to_zero_crossings(v, rate,
        SortByStart(merge_removals(FilterRemovals(rs, cfg), cfg)), cfg)

\* lines 252-264: adjusted.into_iter().map(..).collect()
PreviewMap(adjusted, rate) ==
    [i \in 1..Len(adjusted) |-> PreviewEdit(adjusted[i], rate)]

preview(v, rate, rs, cfg) ==
    PreviewMap(preview_adjusted(v, rate, rs, cfg), rate)

----------------------------------------------------------------------------
(* exporter.rs: Exporter::compute_keep_regions *)

\* sort_by on original_start, stable
RECURSIVE InsertEdit(_, _)
InsertEdit(sorted, e) ==
    IF sorted = <<>> THEN <<e>>
    ELSE IF sorted[Len(sorted)].original_start <= e.original_start
         THEN Append(sorted, e)
    ELSE Append(InsertEdit(SubSeq(sorted, 1, Len(sorted) - 1), e),
                sorted[Len(sorted)])

RECURSIVE SortEditsFrom(_, _, _)
SortEditsFrom(es, i, acc) ==
    IF i > Len(es) THEN acc
    ELSE SortEditsFrom(es, i + 1, InsertEdit(acc, es[i]))

\* the for loop; st is [regions, last_end]
RECURSIVE KeepLoop(_, _, _)
KeepLoop(sorted_edits, i, st) ==
    IF i > Len(sorted_edits) THEN st
    ELSE LET edit == sorted_edits[i]
         IN KeepLoop(sorted_edits, i + 1,
               [regions |-> IF edit.original_start > st.last_end
                            THEN Append(st.regions, <<st.last_end, edit.original_start>>)
                            ELSE st.regions,
                last_end |-> edit.original_end])

compute_keep_regions(rep) ==
    IF rep.edits = <<>> THEN << <<0, rep.original_duration>> >>
    ELSE LET sorted_edits == SortEditsFrom(rep.edits, 1, <<>>)
             st == KeepLoop(sorted_edits, 1, [regions |-> <<>>, last_end |-> 0])
         IN IF st.last_end < rep.original_duration
            THEN Append(st.regions, <<st.last_end, rep.original_duration>>)
            ELSE st.regions

----------------------------------------------------------------------------
(* exporter.rs: Exporter::seconds_to_timecode and Exporter::to_edl *)

\* fps is the rational <<n, d>>; `fps as u32` truncates it
FpsAsU32(fps) == fps[1] \div fps[2]

\* <<hours, mins, secs, frames>>, the fields of "HH:MM:SS:FF"
seconds_to_timecode(seconds, fps) ==
    LET total_frames == AsUsize(seconds * fps[1], TicksPerSec * fps[2])
        frames == total_frames % FpsAsU32(fps)
        total_seconds == total_frames \div FpsAsU32(fps)
        secs == total_seconds % 60
        total_minutes == total_seconds \div 60
        mins == total_minutes % 60
        hours == total_minutes \div 60
    IN <<hours, mins, secs, frames>>

\* the for loop of to_edl; st is [events, rec_offset]
RECURSIVE EdlLoop(_, _, _, _)
EdlLoop(regions, i, fps, st) ==
    IF i > Len(regions) THEN st
    ELSE LET start == regions[i][1]
             end == regions[i][2]
             duration == end - start
         IN EdlLoop(regions, i + 1, fps,
               [events |-> Append(st.events,
                    [event_num |-> i,
                     src |-> <<start, end>>,
                     rec |-> <<st.rec_offset, st.rec_offset + duration>>,
                     src_in |-> seconds_to_timecode(start, fps),
                     src_out |-> seconds_to_timecode(end, fps),
                     rec_in |-> seconds_to_timecode(st.rec_offset, fps),
                     rec_out |-> seconds_to_timecode(st.rec_offset + duration, fps)]),
                rec_offset |-> st.rec_offset + duration])

to_edl(regions, fps) ==
    EdlLoop(regions, 1, fps, [events |-> <<>>, rec_offset |-> 0]).events

----------------------------------------------------------------------------
(* exporter.rs: JsonReport::from_report *)

\* AddReason that assigns the duration instead of adding it
AddReasonAssign(by_reason, reason, duration) ==
    LET old == IF reason \in DOMAIN by_reason THEN by_reason[reason]
               ELSE [count |-> 0, duration |-> 0]
    IN [r \in DOMAIN by_reason \cup {reason} |->
          IF r = reason
          THEN [count |-> old.count + 1, duration |-> duration]
          ELSE by_reason[r]]

\* by_reason.entry(reason).or_insert({0, 0.0}); count += 1; duration += d
AddReason(by_reason, reason, duration) ==
    LET old == IF reason \in DOMAIN by_reason THEN by_reason[reason]
               ELSE [count |-> 0, duration |-> 0]
    IN [r \in DOMAIN by_reason \cup {reason} |->
          IF r = reason
          THEN [count |-> old.count + 1, duration |-> old.duration + duration]
          ELSE by_reason[r]]

\* the for loop; st is [by_reason, total_removed]
RECURSIVE StatsLoop(_, _, _)
StatsLoop(es, i, st) ==
    IF i > Len(es) THEN st
    ELSE LET duration == es[i].original_end - es[i].original_start
         IN StatsLoop(es, i + 1,
               [by_reason |-> AddReason(st.by_reason, es[i].reason, duration),
                total_removed |-> st.total_removed + duration])

from_report(rep) ==
    LET removed_duration == rep.original_duration - rep.edited_duration
        st == StatsLoop(rep.edits, 1,
                        [by_reason |-> <<>>, total_removed |-> 0])
    IN [original_duration |-> rep.original_duration,
        edited_duration |-> rep.edited_duration,
        removed_duration |-> removed_duration,
        reduction_percent |-> IF rep.original_duration > 0
                              THEN Rat(removed_duration * 100, rep.original_duration)
                              ELSE <<0, 1>>,
        edit_count |-> Len(rep.edits),
        edits |-> rep.edits,
        statistics |-> [by_reason |-> st.by_reason,
                        total_removed_duration |-> st.total_removed]]

----------------------------------------------------------------------------
(* audio.rs: AudioProcessor::save.  The file system and the WAV writer are  *)
(* the platform's: each of their calls succeeds or fails, as `fault` says.   *)

RECURSIVE Pow2(_)
Pow2(n) == IF n = 0 THEN 1 ELSE 2 * Pow2(n - 1)

\* `x as i32` of the rational num/den: truncation toward zero
TruncDiv(num, den) == IF num >= 0 THEN num \div den ELSE -((-num) \div den)

\* (sample * max_val).clamp(-max_val, max_val - 1.0) as i32
ToIntSample(x, bits_per_sample) ==
    LET max_val == Pow2(bits_per_sample - 1)
    IN IF x[1] * max_val <= -max_val * x[2] THEN -max_val
       ELSE IF x[1] * max_val >= (max_val - 1) * x[2] THEN max_val - 1
       ELSE TruncDiv(x[1] * max_val, x[2])

\* no file at the path
NoFile == [exists |-> FALSE, samples |-> <<>>, finalized |-> FALSE]

\* the file WavWriter::create leaves: created or truncated, header only
CreatedFile == [exists |-> TRUE, samples |-> <<>>, finalized |-> FALSE]

\* no call fails
IoOk == <<"none", 0>>

\* the calls of save that can fail; write_sample fails at the k-th sample
SaveFaults ==
    {<<"create_dir_all", 0>>, <<"file_create", 0>>, <<"write_header", 0>>,
     <<"finalize", 0>>} \cup {<<"write_sample", k>> : k \in 0..MaxLen - 1}

\* the calls of edit that can fail
EditFaults == {<<"load", 0>>} \cup SaveFaults

\* [result, file]: what save returns and the file it leaves at the path
save(file, audio_samples, bits_per_sample, fault) ==
    LET written == [i \in 1..Len(audio_samples) |->
                       ToIntSample(audio_samples[i], bits_per_sample)]
    IN IF fault[1] \in {"create_dir_all", "file_create"}
       THEN [result |-> "err", file |-> file]
       ELSE IF fault[1] = "write_header"
       THEN [result |-> "err", file |-> CreatedFile]
       ELSE IF fault[1] = "write_sample" /\ fault[2] < Len(audio_samples)
       THEN [result |-> "err",
             file |-> [CreatedFile EXCEPT !.samples = SubSeq(written, 1, fault[2])]]
       ELSE IF fault[1] = "finalize"
       THEN [result |-> "err", file |-> [CreatedFile EXCEPT !.samples = written]]
       ELSE [result |-> "ok",
             file |-> [exists |-> TRUE, samples |-> written, finalized |-> TRUE]]

----------------------------------------------------------------------------
(* Inputs *)

Q(n) == <<n, 1>>

BuffersOver(values) ==
    UNION {[1..n -> {Q(x) : x \in values}] : n \in 0..MaxLen}

Configs == [crossfade_ms : 0..MaxMs, min_removal_ms : 0..MaxMs,
            merge_gap_ms : 0..MaxMs, zero_crossing_search_ms : 0..MaxMs]

Words == <<"a", "b", "c", "d">>
ConfidencePatterns == {<<90, 80, 85, 70>>}
MergeConfidencePatterns == {<<90, 80, 85, 70>>, <<80, 90, 85, 95>>}
ReasonPatterns == {<<"Filler", "Filler", "Repeat", "Filler">>,
                   <<"Filler", "MouthNoise", "Filler", "Repeat">>}

Times == 0..MaxTime

\* a removal list: the i-th removal spans st[i]..en[i], says Words[i], and
\* has the i-th reason and confidence of the patterns rp and cp
MkRemovals(n, st, en, rp, cp) ==
    [i \in 1..n |-> [start |-> st[i], end |-> en[i], reason |-> rp[i],
                     text |-> <<Words[i]>>, confidence |-> cp[i]]]

\* an EditReport of n edits
MkReport(n, st, en, rp, d, e) ==
    [original_duration |-> d, edited_duration |-> e,
     edits |-> [i \in 1..n |-> [original_start |-> st[i], original_end |-> en[i],
                                reason |-> ReasonToString(rp[i]),
                                text |-> <<Words[i]>>]]]

FrameRates == {<<30, 1>>}

\* EditorConfig::default()
DefaultConfig == [crossfade_ms |-> 30, min_removal_ms |-> 100,
                  merge_gap_ms |-> 50, zero_crossing_search_ms |-> 5]

None == <<"none">>

----------------------------------------------------------------------------
(* editor.rs: Editor::edit as one step.  load and save are the codec's; they *)
(* either succeed or return an AudioError, chosen by io.                     *)

\* lines 62-83: filter, merge, sort, adjust, apply
RenderApply(v, rate, valid, sorted_removals, adjusted, cfg) ==
    [valid |-> valid, sorted |-> sorted_removals, adjusted |-> adjusted]
    @@ apply_removals(v, rate, adjusted, cfg)

RenderAdjust(v, rate, valid, sorted_removals, cfg) ==
    RenderApply(v, rate, valid, sorted_removals,
                adjust_to_zero_crossings(v, rate, sorted_removals, cfg), cfg)

RenderMerge(v, rate, valid, cfg) ==
    RenderAdjust(v, rate, valid, SortByStart(merge_removals(valid, cfg)), cfg)

render(v, rate, analysis, cfg) ==
    RenderMerge(v, rate, FilterRemovals(analysis, cfg), cfg)

\* what edit does once called: load, lines 62-83, save, the report
EditOutcome(analysis, io) ==
    /\ removals' = analysis
    /\ IF io[1] = "load"
       THEN /\ result' = "err_load"
            /\ UNCHANGED <<valid_removals, merged_removals, adjusted_removals,
                           segments, edited, edits, report, output_file>>
       ELSE \E out \in {render(samples, sample_rate, analysis, config)} :
            \E saved \in {save(output_file, out.samples, 24, io)} :
               /\ valid_removals' = out.valid
               /\ merged_removals' = out.sorted
               /\ adjusted_removals' = out.adjusted
               /\ segments' = out.segments
               /\ edited' = out.samples
               /\ edits' = out.edits
               /\ output_file' = saved.file
               /\ IF saved.result = "err"
                  THEN result' = "err_save" /\ report' = None
                  ELSE /\ result' = "ok"
                       /\ report' = [original_duration |-> Duration(samples, sample_rate),
                                     edited_duration |-> Duration(out.samples, sample_rate),
                                     edits |-> out.edits]
    /\ UNCHANGED <<samples, sample_rate, config, preview_edits, preview_plan,
                   json, keep_regions, edl_events, zc_target, zc_range,
                   zc_result, merged_once, merged_twice, auxVars>>

Edit(analysis, io) ==
    /\ pc = "start"
    /\ EditOutcome(analysis, io)
    /\ pc' = "edited"
    /\ UNCHANGED prevVars

\* v with x inserted so that k elements precede it
InsertAt(v, k, x) == SubSeq(v, 1, k) \o <<x>> \o SubSeq(v, k + 1, Len(v))

(* editor.rs: Editor::edit called again on the same audio, the analysis now  *)
(* holding one more removal; the outcome of the first call is remembered.    *)
EditWithExtra(extra, k) ==
    /\ pc = "edited"
    /\ result = "ok"
    /\ prev_plan' = adjusted_removals
    /\ prev_edits' = edits
    /\ EditOutcome(InsertAt(removals, k, extra), IoOk)
    /\ pc' = "edited_again"

(* editor.rs: Editor::preview *)
Preview(analysis) ==
    /\ pc \in {"start", "edited"}
    /\ pc = "edited" => result = "ok" /\ analysis = removals
    /\ removals' = analysis
    /\ \E adjusted \in {preview_adjusted(samples, sample_rate, analysis, config)} :
          /\ preview_plan' = adjusted
          /\ preview_edits' = PreviewMap(adjusted, sample_rate)
    /\ pc' = "previewed"
    /\ UNCHANGED <<samples, sample_rate, config, valid_removals,
                   merged_removals, adjusted_removals, segments, edited, edits,
                   result, report, json, keep_regions, edl_events, zc_target,
                   zc_range, zc_result, merged_once, merged_twice,
                   output_file, prevVars, auxVars>>

(* exporter.rs: Exporter::to_json, the report it serialises *)
ToJson ==
    /\ pc = "previewed"
    /\ result = "ok"
    /\ json' = from_report(report)
    /\ pc' = "json"
    /\ UNCHANGED <<samples, sample_rate, config, removals, valid_removals,
                   merged_removals, adjusted_removals, segments, edited, edits,
                   result, report, preview_edits, preview_plan, keep_regions,
                   edl_events, zc_target, zc_range, zc_result, merged_once,
                   merged_twice,
                   output_file, prevVars, auxVars>>

\* no file at output_path yet, no earlier call
IdleEdit == output_file = NoFile /\ prev_plan = None /\ prev_edits = None

\* apply_crossfade, time_to_sample and load_symphonia not in use
IdleCrossfade ==
    /\ cf_segment1 = <<>> /\ cf_segment2 = <<>> /\ cf_samples = 0
    /\ cf_result = None
IdleConv == conv_time = 0 /\ conv_index = -1
IdleLoad ==
    /\ stream = <<>> /\ channels = 1 /\ all_samples = <<>>
    /\ load_result = "none" /\ load_warnings = 0
IdleTc == tc_seconds = 0 /\ tc_fps = <<1, 1>> /\ tc_fields = None
IdleDispatch ==
    /\ path = [exists |-> FALSE, extension |-> <<>>]
    /\ decoder = "none" /\ load_returned = None
IdleDownload ==
    /\ dest_file = <<>> /\ temp_file = <<>> /\ response = <<>>
    /\ requests = 0 /\ model_sha256 = <<>> /\ download_result = "none"
    /\ download_calls = 0
IdleOther == IdleTc /\ IdleDispatch /\ IdleDownload
IdleAux == IdleCrossfade /\ IdleConv /\ IdleLoad /\ IdleOther

\* everything but the audio and the configuration, before any call
Idle ==
    /\ removals = <<>> /\ pc = "start"
    /\ valid_removals = None /\ merged_removals = None
    /\ adjusted_removals = None /\ segments = None /\ edited = None
    /\ edits = None /\ result = "none" /\ report = None
    /\ preview_edits = None /\ preview_plan = None /\ json = None
    /\ keep_regions = None /\ edl_events = None
    /\ zc_target = 0 /\ zc_range = 0 /\ zc_result = -1
    /\ merged_once = None /\ merged_twice = None
    /\ IdleEdit

(* The render: edit, then the preview of the same analysis, then the JSON  *)
(* report of the render.                                                   *)
Init ==
    /\ samples \in BuffersOver(RenderValues)
    /\ sample_rate \in SampleRates
    /\ config \in Configs
    /\ Idle /\ IdleAux

Next ==
    \/ /\ pc = "start"
       /\ \E n \in 0..MaxRemovals :
            \E st \in [1..n -> Times], en \in [1..n -> Times],
               rp \in ReasonPatterns, cp \in ConfidencePatterns :
                Edit(MkRemovals(n, st, en, rp, cp), IoOk)
    \/ pc = "edited" /\ Preview(removals)
    \/ ToJson

Spec == Init /\ [][Next]_vars

(* exporter.rs: Exporter::to_edl, the events it writes *)
ToEdl(fps) ==
    /\ pc = "report"
    /\ \E regions \in {compute_keep_regions(report)} :
          /\ keep_regions' = regions
          /\ edl_events' = to_edl(regions, fps)
    /\ pc' = "edl"
    /\ UNCHANGED <<samples, sample_rate, config, removals, valid_removals,
                   merged_removals, adjusted_removals, segments, edited, edits,
                   result, report, preview_edits, preview_plan, json, zc_target,
                   zc_range, zc_result, merged_once, merged_twice,
                   output_file, prevVars, auxVars>>

(* audio.rs: AudioProcessor::find_zero_crossing, called on its own *)
FindZeroCrossing ==
    /\ pc = "start"
    /\ zc_result' = find_zero_crossing(samples, zc_target, zc_range)
    /\ pc' = "found"
    /\ UNCHANGED <<samples, sample_rate, config, removals, valid_removals,
                   merged_removals, adjusted_removals, segments, edited, edits,
                   result, report, preview_edits, preview_plan, json,
                   keep_regions, edl_events, zc_target, zc_range, merged_once,
                   merged_twice,
                   output_file, prevVars, auxVars>>

(* editor.rs: Editor::merge_removals, applied to a list and to its own result *)
Merge ==
    /\ pc = "start"
    /\ \E m \in {merge_removals(removals, config)} :
          /\ merged_once' = m
          /\ merged_twice' = merge_removals(m, config)
    /\ pc' = "merged"
    /\ UNCHANGED <<samples, sample_rate, config, removals, valid_removals,
                   merged_removals, adjusted_removals, segments, edited, edits,
                   result, report, preview_edits, preview_plan, json,
                   keep_regions, edl_events, zc_target, zc_range, zc_result,
                   output_file, prevVars, auxVars>>

(* Reconciliation alone, as preview runs it (the crossfade plays no part). *)
InitPreview ==
    /\ samples \in BuffersOver(SampleValues)
    /\ sample_rate \in SampleRates
    /\ config \in {c \in Configs : c.crossfade_ms = 0}
    /\ Idle /\ IdleAux

NextPreview ==
    /\ pc = "start"
    /\ \E n \in 0..MaxRemovals :
         \E st \in [1..n -> Times], en \in [1..n -> Times],
            rp \in ReasonPatterns, cp \in ConfidencePatterns :
             Preview(MkRemovals(n, st, en, rp, cp))

SpecPreview == InitPreview /\ [][NextPreview]_vars


(* find_zero_crossing on every buffer, target and radius *)
InitZc ==
    /\ samples \in BuffersOver(ZcValues)
    /\ sample_rate \in SampleRates
    /\ config = DefaultConfig
    /\ removals = <<>> /\ pc = "start"
    /\ valid_removals = None /\ merged_removals = None
    /\ adjusted_removals = None /\ segments = None /\ edited = None
    /\ edits = None /\ result = "none" /\ report = None
    /\ preview_edits = None /\ preview_plan = None /\ json = None
    /\ keep_regions = None /\ edl_events = None
    /\ zc_target \in 0..MaxLen + 1 /\ zc_range \in 0..MaxRange /\ zc_result = -1
    /\ merged_once = None /\ merged_twice = None
    /\ IdleEdit /\ IdleAux

SpecZc == InitZc /\ [][FindZeroCrossing]_vars

(* merge_removals on every removal list and merge gap *)
InitMerge ==
    /\ samples = <<>>
    /\ sample_rate \in SampleRates
    /\ config \in {c \in Configs : /\ c.crossfade_ms = 0
                                   /\ c.min_removal_ms = 0
                                   /\ c.zero_crossing_search_ms = 0}
    /\ \E n \in 0..MaxMergeLen :
         \E st \in [1..n -> Times], en \in [1..n -> Times],
            rp \in ReasonPatterns, cp \in MergeConfidencePatterns :
             removals = MkRemovals(n, st, en, rp, cp)
    /\ pc = "start"
    /\ valid_removals = None /\ merged_removals = None
    /\ adjusted_removals = None /\ segments = None /\ edited = None
    /\ edits = None /\ result = "none" /\ report = None
    /\ preview_edits = None /\ preview_plan = None /\ json = None
    /\ keep_regions = None /\ edl_events = None
    /\ zc_target = 0 /\ zc_range = 0 /\ zc_result = -1
    /\ merged_once = None /\ merged_twice = None
    /\ IdleEdit /\ IdleAux

SpecMerge == InitMerge /\ [][Merge]_vars

(* the exporter on every report, whether or not a render produced it *)
InitExport ==
    /\ samples = <<>>
    /\ sample_rate \in SampleRates
    /\ config = DefaultConfig
    /\ removals = <<>> /\ pc = "report"
    /\ valid_removals = None /\ merged_removals = None
    /\ adjusted_removals = None /\ segments = None /\ edited = None
    /\ edits = None /\ result = "ok"
    /\ \E n \in 0..MaxEdits :
         \E st \in [1..n -> Times], en \in [1..n -> Times],
            rp \in ReasonPatterns, d \in Times :
             /\ \A i \in 1..n : st[i] < en[i] /\ en[i] <= d
             /\ report = MkReport(n, st, en, rp, d, d)
    /\ preview_edits = None /\ preview_plan = None /\ json = None
    /\ keep_regions = None /\ edl_events = None
    /\ zc_target = 0 /\ zc_range = 0 /\ zc_result = -1
    /\ merged_once = None /\ merged_twice = None
    /\ IdleEdit /\ IdleAux

NextExport == \E fps \in FrameRates : ToEdl(fps)

SpecExport == InitExport /\ [][NextExport]_vars

(* edit with a failing load or save: every call of edit that can fail does *)
MaxIoRemovals == 1   \* longest removal list of a failing edit

InitIo ==
    /\ samples \in BuffersOver(RenderValues)
    /\ sample_rate \in SampleRates
    /\ config \in Configs
    /\ Idle /\ IdleAux

NextIo ==
    /\ pc = "start"
    /\ \E n \in 0..MaxIoRemovals :
         \E st \in [1..n -> Times], en \in [1..n -> Times],
            rp \in ReasonPatterns, cp \in ConfidencePatterns,
            io \in EditFaults \cup {IoOk} :
             Edit(MkRemovals(n, st, en, rp, cp), io)

SpecIo == InitIo /\ [][NextIo]_vars

(* audio.rs: AudioProcessor::apply_crossfade, called on its own *)
ApplyCrossfade ==
    /\ pc = "start"
    /\ cf_result' = apply_crossfade(cf_segment1, cf_segment2, cf_samples)
    /\ pc' = "crossfaded"
    /\ UNCHANGED <<samples, sample_rate, config, removals, valid_removals,
                   merged_removals, adjusted_removals, segments, edited, edits,
                   result, report, preview_edits, preview_plan, json,
                   keep_regions, edl_events, zc_target, zc_range, zc_result,
                   merged_once, merged_twice, output_file, prevVars,
                   cf_segment1, cf_segment2, cf_samples, convVars, loadVars,
                   otherVars>>

(* apply_crossfade on every pair of segments and every fade length *)
InitCrossfade ==
    /\ samples = <<>>
    /\ sample_rate \in SampleRates
    /\ config = DefaultConfig
    /\ Idle /\ IdleConv /\ IdleLoad /\ IdleOther
    /\ cf_segment1 \in BuffersOver(SampleValues)
    /\ cf_segment2 \in BuffersOver(SampleValues)
    /\ cf_samples \in 0..MaxLen + 1
    /\ cf_result = None

SpecCrossfade == InitCrossfade /\ [][ApplyCrossfade]_vars


(* merge_removals on the times and merge gaps around the example            *)
(* [(1.0, 1.2), (1.25, 1.4)], mergeGapMs = 100                              *)
ExampleTimes == {MsToTicks(1000), MsToTicks(1200), MsToTicks(1250),
                 MsToTicks(1400)}
ExampleGaps == {0, 40, 50, 100}

InitMergeExample ==
    /\ samples = <<>>
    /\ sample_rate \in SampleRates
    /\ config \in {[crossfade_ms |-> 0, min_removal_ms |-> 0,
                    merge_gap_ms |-> g, zero_crossing_search_ms |-> 0] :
                      g \in ExampleGaps}
    /\ \E n \in 0..MaxMergeLen :
         \E st \in [1..n -> ExampleTimes], en \in [1..n -> ExampleTimes],
            rp \in ReasonPatterns, cp \in MergeConfidencePatterns :
             removals = MkRemovals(n, st, en, rp, cp)
    /\ pc = "start"
    /\ valid_removals = None /\ merged_removals = None
    /\ adjusted_removals = None /\ segments = None /\ edited = None
    /\ edits = None /\ result = "none" /\ report = None
    /\ preview_edits = None /\ preview_plan = None /\ json = None
    /\ keep_regions = None /\ edl_events = None
    /\ zc_target = 0 /\ zc_range = 0 /\ zc_result = -1
    /\ merged_once = None /\ merged_twice = None
    /\ IdleEdit /\ IdleAux

SpecMergeExample == InitMergeExample /\ [][Merge]_vars


(* edit of a well-formed analysis, then edit of the same analysis with one *)
(* more removal whose end is not after its start                           *)
ExtraRemoval(s, e) ==
    [start |-> s, end |-> e, reason |-> "LongPause", text |-> <<"z">>,
     confidence |-> 75]

InitDefend ==
    /\ samples \in BuffersOver(RenderValues)
    /\ sample_rate \in SampleRates
    /\ config \in {c \in Configs : c.crossfade_ms = 0}
    /\ Idle /\ IdleAux

NextDefend ==
    \/ /\ pc = "start"
       /\ \E n \in 0..MaxRemovals :
            \E st \in [1..n -> Times], en \in [1..n -> Times],
               cp \in ConfidencePatterns :
                /\ \A i \in 1..n : st[i] < en[i]
                /\ Edit(MkRemovals(n, st, en,
                                   <<"Filler", "Repeat", "Filler", "Repeat">>, cp),
                        IoOk)
    \/ /\ pc = "edited"
       /\ \E s \in Times : \E e \in 0..s : \E k \in 0..Len(removals) :
            EditWithExtra(ExtraRemoval(s, e), k)

SpecDefend == InitDefend /\ [][NextDefend]_vars


(* audio.rs: AudioData::time_to_sample, called on its own *)
TimeToSample ==
    /\ pc = "start"
    /\ conv_index' = time_to_sample(conv_time, sample_rate)
    /\ pc' = "converted"
    /\ UNCHANGED <<samples, sample_rate, config, removals, valid_removals,
                   merged_removals, adjusted_removals, segments, edited, edits,
                   result, report, preview_edits, preview_plan, json,
                   keep_regions, edl_events, zc_target, zc_range, zc_result,
                   merged_once, merged_twice, output_file, prevVars,
                   crossfadeVars, conv_time, loadVars, otherVars>>

(* time_to_sample at every millisecond up to MaxConvTime, at the sample    *)
(* rates an AudioProcessor is commonly built with                          *)
MaxConvTime == 40
ConvRates == {22050, 44100, 48000}

InitConv ==
    /\ samples = <<>>
    /\ sample_rate \in ConvRates
    /\ config = DefaultConfig
    /\ Idle /\ IdleCrossfade /\ IdleLoad /\ IdleOther
    /\ conv_time \in {MsToTicks(ms) : ms \in 0..MaxConvTime}
    /\ conv_index = -1

SpecConv == InitConv /\ [][TimeToSample]_vars


(* audio.rs: AudioProcessor::load_symphonia.  The demuxer and the decoder  *)
(* are symphonia's: `stream` lists what the coming calls of next_packet    *)
(* and decode meet, and the end of the stream is the UnexpectedEof error.  *)

\* the sum of a chunk of samples, as a rational
RECURSIVE ChunkSum(_, _)
ChunkSum(chunk, i) ==
    IF i > Len(chunk) THEN <<0, 1>>
    ELSE LET rest == ChunkSum(chunk, i + 1)
         IN Rat(chunk[i][1] * rest[2] + rest[1] * chunk[i][2],
                chunk[i][2] * rest[2])

\* lines 259-266: interleaved samples to mono
RECURSIVE ToMono(_, _, _)
ToMono(interleaved, n_channels, from) ==
    IF n_channels = 1 THEN interleaved
    ELSE IF from >= Len(interleaved) THEN <<>>
    ELSE LET chunk == Slice(interleaved, from,
                            Min(from + n_channels, Len(interleaved)))
             sum == ChunkSum(chunk, 1)
         IN <<Rat(sum[1], sum[2] * n_channels)>>
            \o ToMono(interleaved, n_channels, from + n_channels)

\* lines 186-222: open, probe, pick the track, make the decoder
OpenStream(opened) ==
    /\ pc = "start"
    /\ IF opened
       THEN pc' = "loading" /\ load_result' = load_result
       ELSE pc' = "loaded" /\ load_result' = "err"
    /\ UNCHANGED <<samples, sample_rate, config, removals, valid_removals,
                   merged_removals, adjusted_removals, segments, edited, edits,
                   result, report, preview_edits, preview_plan, json,
                   keep_regions, edl_events, zc_target, zc_range, zc_result,
                   merged_once, merged_twice, output_file, prevVars,
                   otherVars, crossfadeVars, convVars, stream, channels, all_samples,
                   load_warnings>>

\* the warnings are counted up to MaxWarnings
MaxWarnings == 3

\* lines 224-267: one turn of the loop that does not leave it.  A packet of
\* kind "persistent_error" is an error of next_packet that the demuxer
\* reports again at every later call (symphonia calls every error but
\* ResetRequired unrecoverable); it is not consumed.
NextPacket ==
    /\ pc = "loading"
    /\ stream # <<>>
    /\ LET packet == Head(stream)
       IN /\ all_samples' = IF packet.kind = "audio"
                            THEN all_samples \o ToMono(packet.samples, channels, 0)
                            ELSE all_samples
          /\ load_warnings' =
                IF packet.kind \in {"demux_error", "decode_error", "persistent_error"}
                THEN Min(load_warnings + 1, MaxWarnings)
                ELSE load_warnings
          /\ stream' = IF packet.kind = "persistent_error" THEN stream
                        ELSE Tail(stream)
    /\ pc' = "continue"
    /\ UNCHANGED <<samples, sample_rate, config, removals, valid_removals,
                   merged_removals, adjusted_removals, segments, edited, edits,
                   result, report, preview_edits, preview_plan, json,
                   keep_regions, edl_events, zc_target, zc_range, zc_result,
                   merged_once, merged_twice, output_file, prevVars,
                   crossfadeVars, convVars, channels, load_result, otherVars>>

\* lines 224, 234, 239, 246 and 266: `continue`, or the end of the body, goes back to
\* the call of next_packet
Continue ==
    /\ pc = "continue"
    /\ pc' = "loading"
    /\ UNCHANGED <<samples, sample_rate, config, removals, valid_removals,
                   merged_removals, adjusted_removals, segments, edited, edits,
                   result, report, preview_edits, preview_plan, json,
                   keep_regions, edl_events, zc_target, zc_range, zc_result,
                   merged_once, merged_twice, output_file, prevVars,
                   crossfadeVars, convVars, loadVars, otherVars>>

\* lines 227-231 and 269-279: the end of the stream breaks the loop; the
\* source rate is the target rate, so the samples are returned as decoded
EndOfStream ==
    /\ pc = "loading"
    /\ stream = <<>>
    /\ samples' = all_samples
    /\ load_result' = "ok"
    /\ pc' = "loaded"
    /\ UNCHANGED <<sample_rate, config, removals, valid_removals,
                   merged_removals, adjusted_removals, segments, edited, edits,
                   result, report, preview_edits, preview_plan, json,
                   keep_regions, edl_events, zc_target, zc_range, zc_result,
                   merged_once, merged_twice, output_file, prevVars,
                   otherVars, crossfadeVars, convVars, stream, channels, all_samples,
                   load_warnings>>

(* load_symphonia on every stream of at most MaxPackets packets *)
MaxPackets == 3
PacketSamples == {<<Q(1), Q(-1)>>, <<Q(2)>>}
Packets ==
    {[kind |-> "audio", samples |-> p] : p \in PacketSamples}
    \cup {[kind |-> k, samples |-> <<>>] :
            k \in {"other_track", "demux_error", "decode_error"}}

InitLoad ==
    /\ samples = <<>>
    /\ sample_rate \in SampleRates
    /\ config = DefaultConfig
    /\ Idle /\ IdleCrossfade /\ IdleConv /\ IdleOther
    /\ stream \in UNION {[1..n -> Packets] : n \in 0..MaxPackets}
    /\ channels \in {1, 2}
    /\ all_samples = <<>>
    /\ load_result = "none"
    /\ load_warnings = 0

NextLoad ==
    \/ \E opened \in BOOLEAN : OpenStream(opened)
    \/ NextPacket
    \/ Continue
    \/ EndOfStream

SpecLoad == InitLoad /\ [][NextLoad]_vars

(* load_symphonia on streams whose demuxer may keep reporting an error; a  *)
(* call that has started keeps running, so the loop takes its next turn.   *)
PersistentPackets == Packets \cup {[kind |-> "persistent_error", samples |-> <<>>]}

InitLoadLive ==
    /\ samples = <<>>
    /\ sample_rate \in SampleRates
    /\ config = DefaultConfig
    /\ Idle /\ IdleCrossfade /\ IdleConv /\ IdleOther
    /\ stream \in UNION {[1..n -> PersistentPackets] : n \in 0..MaxPackets}
    /\ channels \in {1, 2}
    /\ all_samples = <<>>
    /\ load_result = "none"
    /\ load_warnings = 0

SpecLoadLive == InitLoadLive /\ [][NextLoad]_vars /\ WF_vars(NextLoad)


(* exporter.rs: Exporter::seconds_to_timecode, called on its own with the  *)
(* frame rates of film, PAL, NTSC black-and-white and NTSC colour           *)
SecondsToTimecode ==
    /\ pc = "start"
    /\ tc_fields' = seconds_to_timecode(tc_seconds, tc_fps)
    /\ pc' = "timecode"
    /\ UNCHANGED <<samples, sample_rate, config, removals, valid_removals,
                   merged_removals, adjusted_removals, segments, edited, edits,
                   result, report, preview_edits, preview_plan, json,
                   keep_regions, edl_events, zc_target, zc_range, zc_result,
                   merged_once, merged_twice, output_file, prevVars,
                   crossfadeVars, convVars, loadVars, tc_seconds, tc_fps,
                   dispatchVars, downloadVars>>

MaxHours == 1   \* longest time handed to seconds_to_timecode, in hours
TimecodeRates == {<<24, 1>>, <<25, 1>>, <<30, 1>>, <<2997, 100>>}
ClockValues == {0, 1, 59}   \* minutes and seconds at the ends of their range
\* the largest product seconds * fps the model computes
MaxProduct == 2000 * 1000 * 1000

InitTimecode ==
    /\ samples = <<>>
    /\ sample_rate \in SampleRates
    /\ config = DefaultConfig
    /\ Idle /\ IdleCrossfade /\ IdleConv /\ IdleLoad
    /\ IdleDispatch /\ IdleDownload
    /\ tc_fps \in TimecodeRates
    /\ \E h \in 0..MaxHours, m \in ClockValues, s \in ClockValues,
          t \in 0..(TicksPerSec - 1) :
          tc_seconds = ((h * 60 + m) * 60 + s) * TicksPerSec + t
    /\ tc_seconds <= MaxProduct \div tc_fps[1]
    /\ tc_fields = None

SpecTimecode == InitTimecode /\ [][SecondsToTimecode]_vars


(* audio.rs: AudioProcessor::load.  load_wav and load_symphonia are called *)
(* with the path; `decoded` is what the one that is called returns.        *)

\* the spellings of the extensions that load is called with
Spellings ==
    [wav |-> {"wav", "WAV", "Wav"}, mp3 |-> {"mp3", "MP3", "Mp3"},
     m4a |-> {"m4a", "M4A", "M4a"}, aac |-> {"aac", "AAC", "Aac"},
     flac |-> {"flac", "FLAC", "Flac"}, ogg |-> {"ogg", "OGG", "Ogg"}]
OtherExtensions == {"txt", "TXT", "wave", "mp4", "unknown"}

\* str::to_lowercase on these spellings
to_lowercase(e) ==
    CASE e \in {"WAV", "Wav"} -> "wav"
      [] e \in {"MP3", "Mp3"} -> "mp3"
      [] e \in {"M4A", "M4a"} -> "m4a"
      [] e \in {"AAC", "Aac"} -> "aac"
      [] e \in {"FLAC", "Flac"} -> "flac"
      [] e \in {"OGG", "Ogg"} -> "ogg"
      [] e = "TXT" -> "txt"
      [] OTHER -> e

\* a mutation of load: the extension is looked at before the path
load_ExtensionFirst(p, decoded) ==
    LET extension == IF p.extension = <<>> THEN <<>>
                     ELSE <<to_lowercase(p.extension[1])>>
    IN IF extension = <<>>
       THEN [decoder |-> "none", returned |-> <<"UnsupportedFormat", "unknown">>]
       ELSE IF extension[1] \in {"mp3", "m4a", "aac", "flac", "ogg", "wav"}
       THEN IF ~p.exists
            THEN [decoder |-> "none", returned |-> <<"FileNotFound">>]
            ELSE [decoder |-> "symphonia", returned |-> decoded]
       ELSE [decoder |-> "none",
             returned |-> <<"UnsupportedFormat", extension[1]>>]

\* lines 162-181; the result is [decoder, returned]
load(p, decoded) ==
    IF ~p.exists
    THEN [decoder |-> "none", returned |-> <<"FileNotFound">>]
    ELSE LET extension == IF p.extension = <<>> THEN <<>>
                          ELSE <<to_lowercase(p.extension[1])>>
         IN IF extension = <<>>
            THEN [decoder |-> "none",
                  returned |-> <<"UnsupportedFormat", "unknown">>]
            ELSE IF extension[1] = "wav"
            THEN [decoder |-> "wav", returned |-> decoded]
            ELSE IF extension[1] \in {"mp3", "m4a", "aac", "flac", "ogg"}
            THEN [decoder |-> "symphonia", returned |-> decoded]
            ELSE [decoder |-> "none",
                  returned |-> <<"UnsupportedFormat", extension[1]>>]

\* what load_wav and load_symphonia return
DecodeOutcomes == {<<"Ok">>, <<"Io">>, <<"Decode">>}

Load(decoded) ==
    /\ pc = "start"
    /\ \E out \in {load(path, decoded)} :
          /\ decoder' = out.decoder
          /\ load_returned' = out.returned
    /\ pc' = "load_returned"
    /\ UNCHANGED <<samples, sample_rate, config, removals, valid_removals,
                   merged_removals, adjusted_removals, segments, edited, edits,
                   result, report, preview_edits, preview_plan, json,
                   keep_regions, edl_events, zc_target, zc_range, zc_result,
                   merged_once, merged_twice, output_file, prevVars,
                   crossfadeVars, convVars, loadVars, tcVars, path,
                   downloadVars>>

InitDispatch ==
    /\ samples = <<>>
    /\ sample_rate \in SampleRates
    /\ config = DefaultConfig
    /\ Idle /\ IdleCrossfade /\ IdleConv /\ IdleLoad
    /\ IdleTc /\ IdleDownload
    /\ \E exists \in BOOLEAN :
         \E extension \in {<<>>} \cup
               {<<e>> : e \in OtherExtensions \cup
                   UNION {Spellings[f] : f \in DOMAIN Spellings}} :
             path = [exists |-> exists, extension |-> extension]
    /\ decoder = "none"
    /\ load_returned = None

NextDispatch == \E decoded \in DecodeOutcomes : Load(decoded)

SpecDispatch == InitDispatch /\ [][NextDispatch]_vars


(* apply_crossfade on the short segments of SpecCrossfade and on long       *)
(* segments of one value, the two 100-sample segments of 1.0 and 0.0 among  *)
(* them                                                                      *)
LongLens == {99, 100}
LongValues == {0, 1}
LongFades == {0, 9, 10, 100, 101}
Constant(c, n) == [i \in 1..n |-> Q(c)]

InitCrossfadeLong ==
    /\ samples = <<>>
    /\ sample_rate \in SampleRates
    /\ config = DefaultConfig
    /\ Idle /\ IdleConv /\ IdleLoad /\ IdleOther
    /\ \/ /\ cf_segment1 \in BuffersOver(SampleValues)
          /\ cf_segment2 \in BuffersOver(SampleValues)
          /\ cf_samples \in 0..MaxLen + 1
       \/ /\ \E c \in LongValues, n \in LongLens : cf_segment1 = Constant(c, n)
          /\ \E c \in LongValues, n \in LongLens : cf_segment2 = Constant(c, n)
          /\ cf_samples \in LongFades
    /\ cf_result = None

SpecCrossfadeLong == InitCrossfadeLong /\ [][ApplyCrossfade]_vars


(* edit on buffers long enough for three kept segments, with fades longer  *)
(* than a segment                                                           *)
MaxJoinLen == 7   \* length of the buffer
MaxFadeMs == 2    \* longest crossfade_ms
JoinTimes == 0..MaxJoinLen
JoinReasons == {<<"Filler", "Repeat">>}
JoinConfigs == [crossfade_ms : 0..MaxFadeMs, min_removal_ms : {0},
                merge_gap_ms : {0}, zero_crossing_search_ms : 0..MaxMs]

InitJoin ==
    /\ samples \in [1..MaxJoinLen -> {Q(x) : x \in RenderValues}]
    /\ sample_rate \in SampleRates
    /\ config \in JoinConfigs
    /\ Idle /\ IdleAux

NextJoin ==
    /\ pc = "start"
    /\ \E n \in 0..MaxRemovals :
         \E st \in [1..n -> JoinTimes], en \in [1..n -> JoinTimes],
            rp \in JoinReasons, cp \in ConfidencePatterns :
             /\ \A i \in 1..n : st[i] < en[i]
             /\ Edit(MkRemovals(n, st, en, rp, cp), IoOk)

SpecJoin == InitJoin /\ [][NextJoin]_vars


(* to_edl on reports whose times are fractions and multiples of a frame,   *)
(* the report of the example (10 s, one edit from 2.0 s to 4.0 s) among     *)
(* them                                                                      *)
EdlTimesMs == {0, 20, 50, 70, 100, 2000, 4000, 10000}
EdlTimes == {MsToTicks(ms) : ms \in EdlTimesMs}
MaxEdlEdits == 2   \* longest edit list of these reports

InitEdl ==
    /\ samples = <<>>
    /\ sample_rate \in SampleRates
    /\ config = DefaultConfig
    /\ removals = <<>> /\ pc = "report"
    /\ valid_removals = None /\ merged_removals = None
    /\ adjusted_removals = None /\ segments = None /\ edited = None
    /\ edits = None /\ result = "ok"
    /\ \E n \in 0..MaxEdlEdits :
         \E st \in [1..n -> EdlTimes], en \in [1..n -> EdlTimes],
            rp \in ReasonPatterns, d \in EdlTimes :
             /\ \A i \in 1..n : st[i] < en[i] /\ en[i] <= d
             /\ \A i \in 1..(n - 1) : en[i] <= st[i + 1]
             /\ report = MkReport(n, st, en, rp, d, d)
    /\ preview_edits = None /\ preview_plan = None /\ json = None
    /\ keep_regions = None /\ edl_events = None
    /\ zc_target = 0 /\ zc_range = 0 /\ zc_result = -1
    /\ merged_once = None /\ merged_twice = None
    /\ IdleEdit /\ IdleAux

SpecEdl == InitEdl /\ [][NextExport]_vars


(* The render of an analysis of up to MaxMergeLen removals, then its        *)
(* preview and its JSON report: merged intervals of up to three members     *)
InitAttribution ==
    /\ samples \in [1..MaxLen -> {Q(x) : x \in RenderValues}]
    /\ sample_rate \in SampleRates
    /\ config \in {c \in Configs : /\ c.crossfade_ms = 0
                                   /\ c.min_removal_ms = 0
                                   /\ c.zero_crossing_search_ms = 0}
    /\ Idle /\ IdleAux

NextAttribution ==
    \/ /\ pc = "start"
       /\ \E n \in 0..MaxMergeLen :
            \E st \in [1..n -> Times], en \in [1..n -> Times],
               rp \in ReasonPatterns, cp \in ConfidencePatterns :
                /\ \A i \in 1..n : st[i] < en[i]
                /\ Edit(MkRemovals(n, st, en, rp, cp), IoOk)
    \/ pc = "edited" /\ Preview(removals)
    \/ ToJson

SpecAttribution == InitAttribution /\ [][NextAttribution]_vars


(* reclip-models manager.rs: ModelManager::download.  download_model       *)
(* (src-tauri commands/models.rs) holds the lock of the one ModelManager   *)
(* for the whole call, so the calls follow one another.  The file system   *)
(* and the HTTP client are the platform's: each of their calls succeeds or *)
(* fails, as `fault` says, and `response` lists what the stream yields.    *)

\* a file that is not there, and a file of the given bytes
NoModelFile == <<>>
ModelFile(bytes) == <<bytes>>

\* hex::encode(Sha256(data)): the digest stands for the data it was made of
compute_sha256(data) == <<"sha256", data>>

\* lines 164-178 with the file renamed before the checksum is looked at
publish_Unverified(temp, sha256, fault) ==
    IF fault = "flush"
    THEN [dest |-> NoModelFile, temp |-> temp, result |-> "IoError"]
    ELSE IF sha256 # <<>> /\ fault = "read"
    THEN [dest |-> temp, temp |-> NoModelFile, result |-> "IoError"]
    ELSE IF sha256 # <<>> /\ compute_sha256(temp[1]) # sha256
    THEN [dest |-> temp, temp |-> NoModelFile, result |-> "VerificationFailed"]
    ELSE IF fault = "rename"
    THEN [dest |-> NoModelFile, temp |-> temp, result |-> "IoError"]
    ELSE [dest |-> temp, temp |-> NoModelFile, result |-> "Ok"]

\* lines 160-181: flush, verify, rename; the result is [dest, temp, result]
publish(temp, sha256, fault) ==
    IF fault = "flush"
    THEN [dest |-> NoModelFile, temp |-> temp, result |-> "IoError"]
    ELSE IF sha256 # <<>> /\ fault = "read"
    THEN [dest |-> NoModelFile, temp |-> temp, result |-> "IoError"]
    ELSE IF sha256 # <<>> /\ compute_sha256(temp[1]) # sha256
    THEN IF fault = "remove"
         THEN [dest |-> NoModelFile, temp |-> temp, result |-> "IoError"]
         ELSE [dest |-> NoModelFile, temp |-> NoModelFile, result |-> "VerificationFailed"]
    ELSE IF fault = "rename"
    THEN [dest |-> NoModelFile, temp |-> temp, result |-> "IoError"]
    ELSE [dest |-> temp, temp |-> NoModelFile, result |-> "Ok"]

\* lines 108-141: the early return, the directory, the request, the temp file
DownloadStart(fault) ==
    /\ pc = "start"
    /\ IF dest_file # NoModelFile
       THEN /\ download_result' = "Ok" /\ pc' = "returned"
            /\ UNCHANGED <<temp_file, requests>>
       ELSE IF fault = "create_dir"
       THEN /\ download_result' = "IoError" /\ pc' = "returned"
            /\ UNCHANGED <<temp_file, requests>>
       ELSE IF fault \in {"send", "status"}
       THEN /\ download_result' = "DownloadFailed" /\ pc' = "returned"
            /\ requests' = requests + 1
            /\ UNCHANGED temp_file
       ELSE IF fault = "create"
       THEN /\ download_result' = "IoError" /\ pc' = "returned"
            /\ requests' = requests + 1
            /\ UNCHANGED temp_file
       ELSE /\ temp_file' = ModelFile(<<>>)
            /\ requests' = requests + 1
            /\ pc' = "streaming"
            /\ UNCHANGED download_result
    /\ UNCHANGED <<samples, sample_rate, config, removals, valid_removals,
                   merged_removals, adjusted_removals, segments, edited, edits,
                   result, report, preview_edits, preview_plan, json,
                   keep_regions, edl_events, zc_target, zc_range, zc_result,
                   merged_once, merged_twice, output_file, prevVars,
                   crossfadeVars, convVars, loadVars, tcVars, dispatchVars,
                   dest_file, response, model_sha256, download_calls>>

\* lines 146-158: one turn of the while loop
DownloadChunk(fault) ==
    /\ pc = "streaming"
    /\ response # <<>>
    /\ IF Head(response).kind = "error"
       THEN /\ download_result' = "DownloadFailed" /\ pc' = "returned"
            /\ UNCHANGED temp_file
       ELSE IF fault = "write"
       THEN /\ download_result' = "IoError" /\ pc' = "returned"
            /\ UNCHANGED temp_file
       ELSE /\ temp_file' = ModelFile(temp_file[1] \o Head(response).bytes)
            /\ UNCHANGED <<download_result, pc>>
    /\ response' = Tail(response)
    /\ UNCHANGED <<samples, sample_rate, config, removals, valid_removals,
                   merged_removals, adjusted_removals, segments, edited, edits,
                   result, report, preview_edits, preview_plan, json,
                   keep_regions, edl_events, zc_target, zc_range, zc_result,
                   merged_once, merged_twice, output_file, prevVars,
                   crossfadeVars, convVars, loadVars, tcVars, dispatchVars,
                   dest_file, requests, model_sha256, download_calls>>

\* lines 160-181: the stream has ended
DownloadFinish(fault) ==
    /\ pc = "streaming"
    /\ response = <<>>
    /\ \E out \in {publish(temp_file, model_sha256, fault)} :
          /\ dest_file' = out.dest
          /\ temp_file' = out.temp
          /\ download_result' = out.result
    /\ pc' = "returned"
    /\ UNCHANGED <<samples, sample_rate, config, removals, valid_removals,
                   merged_removals, adjusted_removals, segments, edited, edits,
                   result, report, preview_edits, preview_plan, json,
                   keep_regions, edl_events, zc_target, zc_range, zc_result,
                   merged_once, merged_twice, output_file, prevVars,
                   crossfadeVars, convVars, loadVars, tcVars, dispatchVars,
                   response, requests, model_sha256, download_calls>>

MaxCalls == 3    \* calls of download_model
MaxChunks == 2   \* longest response, in chunks
Bytes == {0, 1}
StreamItems == {[kind |-> "chunk", bytes |-> <<b>>] : b \in Bytes}
               \cup {[kind |-> "error", bytes |-> <<>>]}
Responses == UNION {[1..n -> StreamItems] : n \in 0..MaxChunks}
Checksums == {<<>>, compute_sha256(<<0, 1>>), compute_sha256(<<1>>)}
StartFaults == {"none", "create_dir", "send", "status", "create"}
ChunkFaults == {"none", "write"}
FinishFaults == {"none", "flush", "read", "remove", "rename"}

\* commands/models.rs lines 126-155: download_model is called again, after
\* the call before it has returned and released the lock
DownloadModel(served) ==
    /\ pc = "returned"
    /\ download_calls < MaxCalls
    /\ download_calls' = download_calls + 1
    /\ response' = served
    /\ download_result' = "none"
    /\ pc' = "start"
    /\ UNCHANGED <<samples, sample_rate, config, removals, valid_removals,
                   merged_removals, adjusted_removals, segments, edited, edits,
                   result, report, preview_edits, preview_plan, json,
                   keep_regions, edl_events, zc_target, zc_range, zc_result,
                   merged_once, merged_twice, output_file, prevVars,
                   crossfadeVars, convVars, loadVars, tcVars, dispatchVars,
                   dest_file, temp_file, requests, model_sha256>>

InitDownload ==
    /\ samples = <<>>
    /\ sample_rate \in SampleRates
    /\ config = DefaultConfig
    /\ Idle /\ IdleCrossfade /\ IdleConv /\ IdleLoad
    /\ IdleTc /\ IdleDispatch
    /\ dest_file = NoModelFile
    /\ temp_file = NoModelFile
    /\ response \in Responses
    /\ requests = 0
    /\ model_sha256 \in Checksums
    /\ download_result = "none"
    /\ download_calls = 1

NextDownload ==
    \/ \E fault \in StartFaults : DownloadStart(fault)
    \/ \E fault \in ChunkFaults : DownloadChunk(fault)
    \/ \E fault \in FinishFaults : DownloadFinish(fault)
    \/ \E served \in Responses : DownloadModel(served)

SpecDownload == InitDownload /\ [][NextDownload]_vars


----------------------------------------------------------------------------
(* Properties of reconciliation (SpecPreview) *)

\* the snapped boundaries of a merged removal m of the loaded audio
SnapStart(m) ==
    find_zero_crossing(samples, time_to_sample(m.start, sample_rate),
                       MsToSamples(config.zero_crossing_search_ms, sample_rate))
SnapEnd(m) ==
    find_zero_crossing(samples, time_to_sample(m.end, sample_rate),
                       MsToSamples(config.zero_crossing_search_ms, sample_rate))

\* the merged, sorted removals of the analysis in `removals`
MergedOfInput ==
    SortByStart(merge_removals(FilterRemovals(removals, config), config))

\* C1: the plan has no two overlapping entries: taken in order, each entry
\* starts at or after the sample where the previous entry ends.
C1_PlanNonOverlapping ==
    pc = "previewed" =>
        \A i \in 1..Len(preview_plan) - 1 :
            preview_plan[i + 1][1] >= preview_plan[i][2]

\* two entries, the first of which had its end moved by snapping
C1_Witness ==
    /\ pc = "previewed"
    /\ Len(preview_plan) = 2
    /\ preview_plan[1][2] # time_to_sample(preview_plan[1][3].end, sample_rate)
    /\ preview_plan[2][1] # time_to_sample(preview_plan[2][3].start, sample_rate)

\* C5: every entry of the plan has endSample > startSample and both indices
\* inside the buffer; a merged interval whose snapped end is not beyond its
\* snapped start is dropped and the others stay, in order, in the plan.
C5_PlanEntriesValid ==
    pc = "previewed" =>
        LET merged == MergedOfInput
            kept == {j \in 1..Len(merged) : SnapEnd(merged[j]) > SnapStart(merged[j])}
        IN /\ \A i \in 1..Len(preview_plan) :
                /\ preview_plan[i][2] > preview_plan[i][1]
                /\ preview_plan[i][1] \in 0..Len(samples) - 1
                /\ preview_plan[i][2] \in 0..Len(samples) - 1
           /\ Len(preview_plan) = Cardinality(kept)
           /\ \A j \in kept :
                \E i \in 1..Len(preview_plan) : preview_plan[i][3] = merged[j]

\* a degenerate interval is dropped and a later interval is still planned
C5_Witness ==
    /\ pc = "previewed"
    /\ Len(preview_plan) >= 1
    /\ LET merged == MergedOfInput
       IN \E j, k \in 1..Len(merged) :
            /\ j < k
            /\ SnapEnd(merged[j]) <= SnapStart(merged[j])
            /\ preview_plan[Len(preview_plan)][3] = merged[k]

----------------------------------------------------------------------------
(* Properties of the render (Spec) *)

\* the sample indices of the loaded buffer
Indices == 0..Len(samples) - 1

\* the indices the kept slices of apply_removals cover
KeptIndices == {k \in Indices : \E i \in 1..Len(segments) :
                                    segments[i][1] <= k /\ k < segments[i][2]}

\* C2: the edited buffer has no more samples than the input, the report's
\* edited duration is at most the original duration, and the kept slices
\* are disjoint and in order, so no input sample is emitted twice.
C2_DurationMonotonic ==
    result = "ok" =>
        /\ Len(edited) <= Len(samples)
        /\ report.edited_duration <= report.original_duration
        /\ \A i \in 1..Len(segments) - 1 : segments[i][2] <= segments[i + 1][1]
        /\ \A i \in 1..Len(segments) :
             0 <= segments[i][1] /\ segments[i][1] < segments[i][2]
                                 /\ segments[i][2] <= Len(samples)

\* two plan entries and at least two kept slices, joined by a crossfade
C2_Witness ==
    /\ result = "ok"
    /\ Len(segments) >= 2
    /\ config.crossfade_ms > 0
    /\ Len(adjusted_removals) = 2
    /\ Len(edited) < Len(samples)

\* C3 as stated: every removal that passed the filter lies inside one merged
\* interval (merging takes the larger end).
C3_FilteredInsideMerged ==
    result = "ok" =>
        \A i \in 1..Len(valid_removals) :
            \E j \in 1..Len(merged_removals) :
                /\ merged_removals[j].start <= valid_removals[i].start
                /\ valid_removals[i].end <= merged_removals[j].end

\* C6: preview returns one PreviewEdit per AppliedEdit of edit, in the same
\* order, with equal original_start, original_end, reason and text, and its
\* adjusted_start / adjusted_end are the sample ranges that edit removes.
C6_PreviewMatchesEdit ==
    pc \in {"previewed", "json"} =>
        /\ Len(preview_edits) = Len(edits)
        /\ \A i \in 1..Len(edits) :
             /\ preview_edits[i].original_start = edits[i].original_start
             /\ preview_edits[i].original_end = edits[i].original_end
             /\ preview_edits[i].reason = edits[i].reason
             /\ preview_edits[i].text = edits[i].text
             /\ preview_edits[i].adjusted_start
                  = sample_to_time(adjusted_removals[i][1], sample_rate)
             /\ preview_edits[i].adjusted_end
                  = sample_to_time(adjusted_removals[i][2], sample_rate)
        /\ edits # <<>> =>
             Indices \ KeptIndices =
               {k \in Indices : \E i \in 1..Len(preview_edits) :
                  /\ time_to_sample(preview_edits[i].adjusted_start, sample_rate) <= k
                  /\ k < time_to_sample(preview_edits[i].adjusted_end, sample_rate)}

\* two previewed cuts, one of them merged from two removals and snapped
C6_Witness ==
    /\ pc = "previewed"
    /\ Len(edits) = 2
    /\ \E i \in 1..2 :
         preview_edits[i].adjusted_start # preview_edits[i].original_start
    /\ adjusted_removals[1][2] < adjusted_removals[2][1]

\* the merged removals none of which survives snapping
NoValidRemoval ==
    \A j \in 1..Len(merged_removals) :
        SnapEnd(merged_removals[j]) <= SnapStart(merged_removals[j])

\* C7: a render with zero valid removals succeeds with the input samples, at
\* the input rate, and an empty edit list, so the durations are equal.
C7_ZeroRemovalsCopy ==
    pc = "edited" /\ NoValidRemoval =>
        /\ result = "ok"
        /\ edited = samples
        /\ edits = <<>>
        /\ report.edits = <<>>
        /\ report.edited_duration = report.original_duration

\* one removal dropped by the filter, another by the degenerate discard
C7_Witness ==
    /\ pc = "edited"
    /\ NoValidRemoval
    /\ samples # <<>>
    /\ Len(removals) = 2
    /\ Len(valid_removals) = 1

\* the tokens of a text
Tokens(text) == {text[k] : k \in 1..Len(text)}

\* C16: the render records exactly one AppliedEdit per plan entry, in plan
\* order, carrying the pre-snap start, end, reason and text of the entry's
\* merged removal; a removal dropped by the filter and a merged interval
\* dropped as degenerate produce no AppliedEdit.
C16_OneEditPerPlanEntry ==
    result = "ok" =>
        /\ Len(edits) = Len(adjusted_removals)
        /\ report.edits = edits
        /\ \A i \in 1..Len(edits) :
             /\ edits[i].original_start = adjusted_removals[i][3].start
             /\ edits[i].original_end = adjusted_removals[i][3].end
             /\ edits[i].reason = ReasonToString(adjusted_removals[i][3].reason)
             /\ edits[i].text = adjusted_removals[i][3].text
             /\ \E j \in 1..Len(merged_removals) :
                  adjusted_removals[i][3] = merged_removals[j]
             /\ \A k \in 1..Len(removals) :
                  Words[k] \in Tokens(edits[i].text) =>
                      RemovalDuration(removals[k]) >= MsToTicks(config.min_removal_ms)
        /\ Len(edits) = Cardinality({j \in 1..Len(merged_removals) :
                            SnapEnd(merged_removals[j]) > SnapStart(merged_removals[j])})

\* two removals, one dropped by the filter, the other applied with a snapped
\* start that differs from its pre-snap start
C16_Witness ==
    /\ result = "ok"
    /\ Len(removals) = 2
    /\ Len(valid_removals) = 1
    /\ Len(edits) = 1
    /\ sample_to_time(adjusted_removals[1][1], sample_rate) # edits[1].original_start
    /\ edits[1].original_start = valid_removals[1].start

\* C15 as stated, for a removal that is applied: when one removal spans
\* [0, duration] of a non-empty buffer, passes the filter and enters the plan,
\* no kept slice remains: the render returns a buffer of zero samples together
\* with the edit of that removal.
C15_WholeFileRemovalEmpties ==
    /\ result = "ok"
    /\ samples # <<>>
    /\ Len(removals) = 1
    /\ removals[1].start = 0
    /\ removals[1].end = Duration(samples, sample_rate)
    /\ valid_removals = removals
    /\ Len(adjusted_removals) = 1
    => /\ segments = <<>>
       /\ edited = <<>>
       /\ Len(edits) = 1

----------------------------------------------------------------------------
(* Properties of the JSON report of a render (Spec) *)

RECURSIVE SumDurations(_, _)
SumDurations(by_reason, keys) ==
    IF keys = {} THEN 0
    ELSE LET r == CHOOSE x \in keys : TRUE
         IN by_reason[r].duration + SumDurations(by_reason, keys \ {r})

SumByReason == SumDurations(json.statistics.by_reason,
                            DOMAIN json.statistics.by_reason)

\* C9 as stated, in the case it names: for the report of a render with a
\* non-zero crossfade whose edits all end before the last sample of the audio,
\* the per-reason durations add up to removed_duration.
C9_SumIsRemovedDuration ==
    /\ pc = "json"
    /\ config.crossfade_ms > 0
    /\ \A i \in 1..Len(edits) :
         time_to_sample(edits[i].original_end, sample_rate) < Len(samples) - 1
    => SumByReason = json.removed_duration

\* C9 amended: the per-reason durations add up to total_removed_duration,
\* the sum of original_end - original_start over the edits, and
\* removed_duration is original_duration - edited_duration.
C9_SumIsTotalRemoved ==
    pc = "json" =>
        /\ SumByReason = json.statistics.total_removed_duration
        /\ json.removed_duration = report.original_duration - report.edited_duration
        /\ \A r \in DOMAIN json.statistics.by_reason :
             json.statistics.by_reason[r].count =
               Cardinality({i \in 1..Len(edits) : edits[i].reason = r})

\* a report of two edits with the same reason, rendered with a crossfade
C9_Witness ==
    /\ pc = "json"
    /\ config.crossfade_ms > 0
    /\ \E r \in DOMAIN json.statistics.by_reason :
         json.statistics.by_reason[r].count = 2
    /\ SumByReason # json.removed_duration

----------------------------------------------------------------------------
(* Properties of find_zero_crossing (SpecZc) *)

\* the zero crossings of the closed window [target - radius, target + radius],
\* clamped to the buffer
CrossingsInWindow ==
    {i \in Max(0, zc_target - zc_range)..Min(zc_target + zc_range, Len(samples) - 1) :
        i + 1 < Len(samples) /\ IsCrossing(samples, i)}

\* C4 as stated: if the clamped window holds a zero crossing, the result is a
\* zero crossing of the window nearest to the target.
C4_NearestCrossing ==
    pc = "found" /\ CrossingsInWindow # {} =>
        /\ zc_result \in CrossingsInWindow
        /\ \A j \in CrossingsInWindow :
              Abs(zc_result - zc_target) <= Abs(j - zc_target)

\* the closed window [target - radius, target + radius], clamped to the buffer
Window == Max(0, zc_target - zc_range)..Min(zc_target + zc_range, Len(samples) - 1)

\* C14 as stated: when the clamped window holds no zero crossing, the result
\* is an index of the window whose sample has the smallest absolute value.
C14_FallbackSmallest ==
    pc = "found" /\ CrossingsInWindow = {} /\ Window # {} =>
        /\ zc_result \in Window
        /\ \A j \in Window : ~AbsLess(samples[j + 1], samples[zc_result + 1])

\* C13 as stated: the result is an index of the buffer, whatever the buffer.
C13_ResultInBufferAlways ==
    pc = "found" => zc_result \in 0..Len(samples) - 1

\* C13 amended: for a non-empty buffer the result is within [0, len - 1],
\* also for a target beyond the end; for an empty buffer, which has no index,
\* the result is 0.
C13_ResultInBuffer ==
    pc = "found" =>
        IF samples = <<>> THEN zc_result = 0
        ELSE zc_result \in 0..Len(samples) - 1

\* a target two samples beyond the end is brought back to the last sample
C13_Witness ==
    /\ pc = "found"
    /\ Len(samples) = 3 /\ zc_target = 5 /\ zc_range = 2
    /\ zc_result = 2

----------------------------------------------------------------------------
(* Properties of merge_removals (SpecMerge) *)

\* C8: merging is idempotent: merging the merged list gives the same
\* intervals, texts and confidences.
C8_MergeIdempotent ==
    pc = "merged" => merged_twice = merged_once

\* a list of three removals two of which were merged
C8_Witness ==
    /\ pc = "merged"
    /\ Len(removals) = 3
    /\ Len(merged_once) = 2
    /\ merged_twice = merged_once

----------------------------------------------------------------------------
(* Properties of merge_removals on the times of the example (SpecMergeExample) *)

\* the least element of a non-empty set of numbers
SetMin(S) == CHOOSE x \in S : \A y \in S : x <= y

\* the removals merged into the interval m: those whose word is in its text
Members(m) == {k \in 1..Len(removals) : Words[k] \in Tokens(m.text)}

\* the input is the example: (1.0, 1.2, conf 0.9), (1.25, 1.4, conf 0.8),
\* mergeGapMs = 100
IsExample ==
    /\ Len(removals) = 2
    /\ removals[1].start = MsToTicks(1000) /\ removals[1].end = MsToTicks(1200)
    /\ removals[1].confidence = 90
    /\ removals[2].start = MsToTicks(1250) /\ removals[2].end = MsToTicks(1400)
    /\ removals[2].confidence = 80
    /\ config.merge_gap_ms = 100

\* C17: a merged interval starts at the earliest start of its members and has
\* the least confidence of its members; (1.0, 1.2, conf 0.9) and
\* (1.25, 1.4, conf 0.8) with mergeGapMs = 100 merge into the one interval
\* (1.0, 1.4) of confidence 0.8; a removal that begins more than mergeGapMs
\* after the end of every removal that starts no later begins an interval of
\* its own.
C17_MergedStartAndConfidence ==
    pc = "merged" =>
        /\ \A j \in 1..Len(merged_once) :
             /\ Members(merged_once[j]) # {}
             /\ merged_once[j].start =
                  SetMin({removals[k].start : k \in Members(merged_once[j])})
             /\ merged_once[j].confidence =
                  SetMin({removals[k].confidence : k \in Members(merged_once[j])})
        /\ \A k \in 1..Len(removals) :
             Cardinality({j \in 1..Len(merged_once) : k \in Members(merged_once[j])}) = 1
        /\ IsExample
           => /\ Len(merged_once) = 1
              /\ merged_once[1].start = MsToTicks(1000)
              /\ merged_once[1].end = MsToTicks(1400)
              /\ merged_once[1].confidence = 80
        /\ \A k \in 1..Len(removals) :
             (\A i \in 1..Len(removals) :
                 i # k /\ removals[i].start <= removals[k].start
                   => removals[k].start - removals[i].end
                        > MsToTicks(config.merge_gap_ms))
             => \E j \in 1..Len(merged_once) :
                    /\ merged_once[j].start = removals[k].start
                    /\ merged_once[j].text[1] = Words[k]

\* the example of the claim, merged
C17_Witness ==
    /\ pc = "merged"
    /\ IsExample
    /\ Len(merged_once) = 1
    /\ merged_once[1].confidence = 80

----------------------------------------------------------------------------
(* Properties of the EDL (SpecExport) *)

\* the ticks t whose cell [t, t + 1) an edit of the report covers
EditedCells ==
    {t \in 0..report.original_duration - 1 :
        \E i \in 1..Len(report.edits) :
            report.edits[i].original_start <= t /\ t < report.edits[i].original_end}

\* the ticks t whose cell [t, t + 1) a kept region covers
KeptCells ==
    {t \in 0..report.original_duration - 1 :
        \E j \in 1..Len(keep_regions) :
            keep_regions[j][1] <= t /\ t < keep_regions[j][2]}

\* C10 as stated: one event per kept region, and the kept regions are exactly
\* the complement within [0, originalDuration] of the union of the edits.
C10_KeepIsComplement ==
    pc = "edl" =>
        /\ Len(edl_events) = Len(keep_regions)
        /\ \A j \in 1..Len(keep_regions) :
              /\ 0 <= keep_regions[j][1]
              /\ keep_regions[j][1] <= keep_regions[j][2]
              /\ keep_regions[j][2] <= report.original_duration
        /\ KeptCells = (0..report.original_duration - 1) \ EditedCells

----------------------------------------------------------------------------
(* Properties of a failing edit (SpecIo) *)

\* C11 as stated: when load or save fails, edit returns the error and no
\* file, complete or partial, exists at output_path afterwards.
C11_FailedEditLeavesNoFile ==
    pc = "edited" /\ result \in {"err_load", "err_save"} =>
        /\ report = None
        /\ ~output_file.exists

----------------------------------------------------------------------------
(* Properties of apply_crossfade (SpecCrossfade) *)

\* C12: apply_crossfade returns len(A) + len(B) - min(fadeLen, len(A), len(B))
\* samples, and with fadeLen = 0 or an empty A or B exactly A followed by B.
C12_CrossfadeLength ==
    pc = "crossfaded" =>
        /\ Len(cf_result) = Len(cf_segment1) + Len(cf_segment2)
                - Min(cf_samples, Min(Len(cf_segment1), Len(cf_segment2)))
        /\ (cf_samples = 0 \/ cf_segment1 = <<>> \/ cf_segment2 = <<>>)
              => cf_result = cf_segment1 \o cf_segment2

\* a fade longer than the second segment, clamped to it, that changed samples
C12_Witness ==
    /\ pc = "crossfaded"
    /\ Len(cf_segment1) = 3 /\ Len(cf_segment2) = 2 /\ cf_samples = 3
    /\ Len(cf_result) = 3
    /\ cf_result # SubSeq(cf_segment1 \o cf_segment2, 1, 3)
    /\ cf_result[3] # cf_segment2[2]

----------------------------------------------------------------------------
(* Properties of edit on an analysis with a malformed removal (SpecDefend) *)

\* C18 as stated: for every config, adding a removal with end <= start to
\* the input list changes neither the plan nor the applied edits.
C18_MalformedRemovalIgnored ==
    pc = "edited_again" =>
        /\ adjusted_removals = prev_plan
        /\ edits = prev_edits

----------------------------------------------------------------------------
(* Properties of time_to_sample (SpecConv) *)

\* round(time * rate): the nearest index, a half rounding away from zero
RoundIndex(time, rate) == (2 * time * rate + TicksPerSec) \div (2 * TicksPerSec)

\* time * rate lies exactly halfway between two indices
IsHalfway(time, rate) ==
    (2 * time * rate) % TicksPerSec = 0 /\ (time * rate) % TicksPerSec # 0

\* C19 as stated, away from the halfway points: time_to_sample returns the
\* index nearest to time * rate.
C19_ConversionRounds ==
    pc = "converted" /\ ~IsHalfway(conv_time, sample_rate) =>
        conv_index = RoundIndex(conv_time, sample_rate)

----------------------------------------------------------------------------
(* Properties of load_symphonia (SpecLoad) *)

\* C20 as stated: if the demuxer or the decoder reported an error for any
\* packet, load returns an AudioError, not a buffer of the other packets.
C20_DecodeErrorSurfaced ==
    pc = "loaded" /\ load_warnings > 0 => load_result = "err"


\* C21 as stated: every call of load, and so every render, eventually returns
\* a result or an error, also when the demuxer keeps reporting an error.
C21_LoadTerminates == <>(pc = "loaded")

----------------------------------------------------------------------------
(* Properties of seconds_to_timecode (SpecTimecode) *)

\* floor(seconds * fps) for seconds in ticks and the rational fps
TotalFrames(seconds, fps) == (seconds * fps[1]) \div (TicksPerSec * fps[2])

\* C22 as stated: for every seconds >= 0 and frame rate fps >= 1 the fields
\* of the timecode satisfy ((hours*60 + mins)*60 + secs)*fps + frames =
\* floor(seconds*fps), with frames < fps, secs < 60 and mins < 60.
C22_TimecodeTruncates ==
    pc = "timecode" =>
        LET hours == tc_fields[1]
            mins == tc_fields[2]
            secs == tc_fields[3]
            frames == tc_fields[4]
        IN /\ ((hours * 60 + mins) * 60 + secs) * tc_fps[1] + frames * tc_fps[2]
                = TotalFrames(tc_seconds, tc_fps) * tc_fps[2]
           /\ frames * tc_fps[2] < tc_fps[1]
           /\ secs < 60
           /\ mins < 60


----------------------------------------------------------------------------
(* Properties of load (SpecDispatch) *)

\* the extension is one of the six formats, whatever its case
IsSupported(extension) ==
    /\ extension # <<>>
    /\ \E f \in DOMAIN Spellings : extension[1] \in Spellings[f]

\* C23: load returns FileNotFound when the path does not exist, whatever its
\* extension, and UnsupportedFormat when the path exists and its extension is
\* missing or, compared without case, none of wav, mp3, m4a, aac, flac, ogg;
\* in both cases no decoder is called.
C23_LoadDispatchErrors ==
    pc = "load_returned" =>
        /\ ~path.exists =>
              load_returned = <<"FileNotFound">> /\ decoder = "none"
        /\ path.exists /\ ~IsSupported(path.extension) =>
              load_returned[1] = "UnsupportedFormat" /\ decoder = "none"

C23_Witness ==
    /\ pc = "load_returned"
    /\ path.exists
    /\ path.extension = <<"TXT">>
    /\ load_returned = <<"UnsupportedFormat", "txt">>
    /\ decoder = "none"


----------------------------------------------------------------------------
(* Properties of apply_crossfade on short and long segments                *)
(* (SpecCrossfadeLong)                                                      *)

\* a * (1 - i/n) + b * (i/n) = c for the rationals a, b, c
IsBlend(a, b, i, n, c) ==
    (a[1] * b[2] * (n - i) + b[1] * a[2] * i) * c[2] = c[1] * a[2] * b[2] * n

\* the segments and the fade length of the example
IsFadeExample ==
    /\ cf_segment1 = Constant(1, 100)
    /\ cf_segment2 = Constant(0, 100)
    /\ cf_samples = 10

\* C24: with an effective fade length fadeLen >= 1 the output keeps
\* A[0 .. len(A)-fadeLen] and B[fadeLen ..] unchanged, and its i-th transition
\* sample is A[len(A)-fadeLen+i]*(1 - i/fadeLen) + B[i]*(i/fadeLen); two
\* 100-sample segments of 1.0 and 0.0 with fadeLen 10 give 190 samples whose
\* transition falls linearly from 1.0 at i = 0.
C24_CrossfadeSamples ==
    pc = "crossfaded" =>
        LET lenA == Len(cf_segment1)
            lenB == Len(cf_segment2)
            fadeLen == Min(cf_samples, Min(lenA, lenB))
        IN /\ fadeLen >= 1 =>
                /\ \A j \in 0..(lenA - fadeLen - 1) :
                      cf_result[j + 1] = cf_segment1[j + 1]
                /\ \A i \in 0..(fadeLen - 1) :
                      IsBlend(cf_segment1[lenA - fadeLen + i + 1],
                              cf_segment2[i + 1], i, fadeLen,
                              cf_result[lenA - fadeLen + i + 1])
                /\ \A j \in fadeLen..(lenB - 1) :
                      cf_result[lenA - fadeLen + j + 1] = cf_segment2[j + 1]
           /\ IsFadeExample =>
                /\ Len(cf_result) = 190
                /\ \A i \in 0..9 : cf_result[90 + i + 1] = Rat(10 - i, 10)

\* the example, crossfaded
C24_Witness ==
    /\ pc = "crossfaded"
    /\ IsFadeExample
    /\ cf_result[91] = Q(1)
    /\ cf_result[100] = <<1, 10>>
    /\ cf_result[101] = Q(0)


----------------------------------------------------------------------------
(* Properties of the join of the kept segments (SpecJoin) *)

\* crossfadeMs / 1000 * sampleRate; MsPerSec divides the product here
FadeLenSamples == (config.crossfade_ms * sample_rate) \div MsPerSec

SegmentLen(s) == s[2] - s[1]

\* the sum of the lengths of the segments from the i-th on
RECURSIVE SumLens(_, _)
SumLens(segs, i) ==
    IF i > Len(segs) THEN 0 ELSE SegmentLen(segs[i]) + SumLens(segs, i + 1)

\* the sum over the joins from the i-th segment on of
\* min(fadeLenSamples, length accumulated so far, length of the next segment)
RECURSIVE SumFades(_, _, _)
SumFades(segs, i, accumulated) ==
    IF i > Len(segs) THEN 0
    ELSE LET fade == Min(FadeLenSamples, Min(accumulated, SegmentLen(segs[i])))
         IN fade + SumFades(segs, i + 1,
                            accumulated + SegmentLen(segs[i]) - fade)

\* C25: for k >= 1 kept segments the joins are the k-1 internal ones, each
\* crossfaded, and the edited length is the sum of the kept lengths minus, for
\* each join, min(fadeLenSamples, length accumulated so far, length of the
\* next segment).
C25_JoinedLength ==
    pc = "edited" /\ adjusted_removals # <<>> /\ Len(segments) >= 1 =>
        Len(edited) = SumLens(segments, 1)
                      - SumFades(segments, 2, SegmentLen(segments[1]))

\* three kept segments of 1, 1 and 2 samples and a fade of 2 samples: both
\* joins fade one sample
C25_Witness ==
    /\ pc = "edited"
    /\ Len(segments) = 3
    /\ FadeLenSamples = 2
    /\ SegmentLen(segments[1]) = 1
    /\ SegmentLen(segments[2]) = 1
    /\ SegmentLen(segments[3]) = 2
    /\ Len(edited) = 2


----------------------------------------------------------------------------
(* Properties of the record timeline of the EDL (SpecEdl) *)

\* the frame rate of the export
EdlRate == CHOOSE fps \in FrameRates : TRUE

\* the frame that the timecode <<hours, mins, secs, frames>> names
FrameOf(timecode) ==
    ((timecode[1] * 60 + timecode[2]) * 60 + timecode[3]) * FpsAsU32(EdlRate)
    + timecode[4]

----------------------------------------------------------------------------
(* Properties of the render of a non-empty buffer (Spec) *)

\* C27: for a non-empty buffer, any config and any removal list, every
\* snapped boundary of the plan is at most len(samples) - 1, the kept slice
\* after the last snapped end reaches the final sample, and the edited buffer
\* is not empty.
C27_EditedNeverEmpty ==
    pc = "edited" /\ result = "ok" /\ samples # <<>> =>
        /\ edited # <<>>
        /\ \A i \in 1..Len(adjusted_removals) :
              /\ adjusted_removals[i][1] <= Len(samples) - 1
              /\ adjusted_removals[i][2] <= Len(samples) - 1
        /\ adjusted_removals # <<>> =>
              /\ segments # <<>>
              /\ segments[Len(segments)][1] < Len(samples)
              /\ segments[Len(segments)][2] = Len(samples)

\* a removal of the whole of a 3-sample buffer leaves its final sample
C27_Witness ==
    /\ pc = "edited" /\ result = "ok"
    /\ Len(samples) = 3
    /\ Len(removals) = 1
    /\ removals[1].start = 0
    /\ removals[1].end >= Duration(samples, sample_rate)
    /\ Len(adjusted_removals) = 1
    /\ adjusted_removals[1][1] = 0
    /\ edited = <<samples[3]>>

----------------------------------------------------------------------------
(* Properties of find_zero_crossing on a target inside the buffer (SpecZc) *)

\* C28: for every samples sequence, every target index in [0, len - 1] and
\* every radius r, find_zero_crossing returns an index at most r away from the
\* target.
C28_SnapWithinRadius ==
    pc = "found" /\ samples # <<>> /\ zc_target <= Len(samples) - 1 =>
        Abs(zc_result - zc_target) <= zc_range

\* a boundary moved by the whole radius
C28_Witness ==
    /\ pc = "found"
    /\ samples # <<>> /\ zc_target <= Len(samples) - 1
    /\ zc_range = 2
    /\ zc_result = zc_target - 2


----------------------------------------------------------------------------
(* Properties of the reason and the text of a merged interval              *)
(* (SpecAttribution)                                                        *)

\* the removal of the input that says the word w
RemovalOf(w) == removals[CHOOSE k \in 1..Len(removals) : Words[k] = w]

\* the text is w1 ... w2 ... wn, the starts of the removals that say
\* w1, w2, .., wn ascending
IsJoinedInStartOrder(text) ==
    /\ Len(text) % 2 = 1
    /\ \A k \in 1..Len(text) :
          IF k % 2 = 0 THEN text[k] = "..."
          ELSE /\ text[k] # "..."
               /\ k > 1 => RemovalOf(text[k - 2]).start <= RemovalOf(text[k]).start

\* the edits attributed to the reason r, by the first member of their interval
EditsOfReason(r) ==
    {i \in 1..Len(edits) :
        ReasonToString(RemovalOf(edits[i].text[1]).reason) = r}

RECURSIVE SumSpans(_)
SumSpans(is) ==
    IF is = {} THEN 0
    ELSE LET i == CHOOSE x \in is : TRUE
         IN edits[i].original_end - edits[i].original_start
            + SumSpans(is \ {i})

\* C29: a merged interval keeps the reason of its earliest-starting member,
\* and its text is the members' texts joined with " ... " in ascending start
\* order; the AppliedEdit of the interval carries that reason for the whole
\* merged span, and the per-reason statistics count the span under it.
C29_MergedReasonAndText ==
    /\ pc \in {"edited", "previewed", "json"} =>
          /\ \A j \in 1..Len(merged_removals) :
                LET m == merged_removals[j]
                IN /\ IsJoinedInStartOrder(m.text)
                   /\ m.reason = RemovalOf(m.text[1]).reason
                   /\ m.start = RemovalOf(m.text[1]).start
                   /\ \A w \in Tokens(m.text) \ {"..."} :
                         m.start <= RemovalOf(w).start
          /\ \A i \in 1..Len(edits) :
                LET m == adjusted_removals[i][3]
                IN /\ edits[i].text = m.text
                   /\ edits[i].reason = ReasonToString(RemovalOf(m.text[1]).reason)
                   /\ edits[i].original_start = m.start
                   /\ edits[i].original_end = m.end
    /\ pc = "json" =>
          /\ DOMAIN json.statistics.by_reason
                = {ReasonToString(RemovalOf(edits[i].text[1]).reason) :
                      i \in 1..Len(edits)}
          /\ \A r \in DOMAIN json.statistics.by_reason :
                /\ json.statistics.by_reason[r].count
                      = Cardinality(EditsOfReason(r))
                /\ json.statistics.by_reason[r].duration
                      = SumSpans(EditsOfReason(r))

\* three removals merged into one interval whose earliest member, the second
\* of the input, is the only mouth noise: the whole span counts as mouth noise
C29_Witness ==
    /\ pc = "json"
    /\ Len(removals) = 3
    /\ removals[1].reason = "Filler"
    /\ removals[2].reason = "MouthNoise"
    /\ Len(edits) = 1
    /\ Len(edits[1].text) = 5
    /\ edits[1].text[1] = "b"
    /\ edits[1].reason = "mouth_noise"
    /\ DOMAIN json.statistics.by_reason = {"mouth_noise"}


----------------------------------------------------------------------------
(* Properties of ModelManager::download (SpecDownload) *)

\* the file at the final path is absent after every call that returned an
\* error, and when it is there and the model has a checksum, it matches
DestOnlyVerified ==
    /\ download_result \notin {"none", "Ok"} => dest_file = NoModelFile
    /\ dest_file # NoModelFile /\ model_sha256 # <<>> =>
          compute_sha256(dest_file[1]) = model_sha256
    /\ pc = "streaming" => dest_file = NoModelFile

\* the file at the final path appears only in the step that ends a stream
\* that gave no error, as the whole of what was streamed
PublishedAtEndOfStream ==
    dest_file' # dest_file =>
        /\ dest_file = NoModelFile
        /\ pc = "streaming" /\ response = <<>>
        /\ dest_file' = temp_file
        /\ download_result' = "Ok"

\* a call that finds the file returns its path and sends no request
PresentNeedsNoRequest ==
    pc = "start" /\ dest_file # NoModelFile =>
        /\ pc' = "returned" /\ download_result' = "Ok"
        /\ requests' = requests
        /\ dest_file' = dest_file /\ temp_file' = temp_file

\* C30: the final model path exists only if a download streamed to the end
\* and, when sha256 is not empty, the checksum matched; a failed stream or a
\* mismatch returns an error with the final path absent, the data having gone
\* to the .tmp sibling only; a download of a present model returns its path
\* without a network request.
C30_AtomicPublish ==
    /\ []DestOnlyVerified
    /\ [][PublishedAtEndOfStream /\ PresentNeedsNoRequest]_vars

\* a second call for a model that the first call downloaded and verified
C30_Witness ==
    /\ pc = "returned"
    /\ download_calls = 2
    /\ requests = 1
    /\ model_sha256 = compute_sha256(<<0, 1>>)
    /\ dest_file = ModelFile(<<0, 1>>)
    /\ temp_file = NoModelFile
    /\ download_result = "Ok"


====
